---- MODULE Spec2Model ----
(***************************************************************************)
(* dst2ak: the DST container decoder.                                      *)
(*                                                                         *)
(* This module models the Bank Assembler (bankassembler.py) over the byte  *)
(* stream of _ByteStream, together with the CRC engine of blockreader.py.  *)
(* BankAssembler.__iter__ is a generator: the model follows its position   *)
(* (pc) from one read of the stream to the next, and stops at the yield    *)
(* with the Bank handed to the consumer.                                   *)
(***************************************************************************)
EXTENDS Integers, Sequences, FiniteSets, TLC

(***************************************************************************)
(* Program constants (bankassembler.py lines 9-19).                        *)
(***************************************************************************)
OPCODE == 96
START_BLOCK == 97
END_BLOCK_LOGICAL == 98
END_BLOCK_PHYSICAL == 99
FILLER == 100
START_BANK == 7
CONTINUE == 8
END_BANK == 14
TO_BE_CONTD == 15

(***************************************************************************)
(* Bounds of the model.                                                    *)
(***************************************************************************)
\* the longest bank buffer the input streams build
MaxBuf == 9
\* the longest block payload handed to _ByteStream
MaxBlockLen == 2
\* the number of Banks the consumer pulls before it stops pulling
MaxBanks == 2

(***************************************************************************)
(* Bit operations on naturals (Python's ^ and | on non-negative ints).     *)
(***************************************************************************)
RECURSIVE Xor(_, _)
Xor(a, b) ==
    IF a = 0 THEN b
    ELSE IF b = 0 THEN a
    ELSE (((a % 2) + (b % 2)) % 2) + 2 * Xor(a \div 2, b \div 2)

RECURSIVE BitOr(_, _)
BitOr(a, b) ==
    IF a = 0 THEN b
    ELSE IF b = 0 THEN a
    ELSE (IF (a % 2) = 1 \/ (b % 2) = 1 THEN 1 ELSE 0) + 2 * BitOr(a \div 2, b \div 2)

(***************************************************************************)
(* CRC-CCITT (blockreader.py lines 14-57).                                 *)
(***************************************************************************)
\* _IT: nibble reversal; _IT[j] of the code is IT[j + 1]
IT == << 0, 8, 4, 12, 2, 10, 6, 14, 1, 9, 5, 13, 3, 11, 7, 15 >>

\* _build_rchr: r[j] = (_IT[j & 0x0F] << 4) | _IT[(j >> 4) & 0x0F]
RCHR == [j \in 0..255 |-> BitOr(IT[(j % 16) + 1] * 16, IT[((j \div 16) % 16) + 1])]

\* one of the 8 shift steps of _dst_icrc1
Icrc1Step(ans) ==
    IF (ans \div 32768) % 2 = 1
    THEN Xor(ans * 2, 4129) % 65536
    ELSE (ans * 2) % 65536

\* _dst_icrc1(crc, onech)
dst_icrc1(crc, onech) ==
    LET a0 == Xor(crc, (onech % 256) * 256) % 65536
    IN Icrc1Step(Icrc1Step(Icrc1Step(Icrc1Step(
       Icrc1Step(Icrc1Step(Icrc1Step(Icrc1Step(a0))))))))

\* _ICRCTAB[j] = _dst_icrc1(j << 8, 0)
ICRCTAB == [j \in 0..255 |-> dst_icrc1(j * 256, 0)]

\* a variant that folds only the low seven bits of the byte
CrcUpdateSevenBits(cword, b) ==
    LET idx == Xor(RCHR[b % 128], (cword \div 256) % 256)
    IN Xor(ICRCTAB[idx], (cword % 256) * 256) % 65536

\* the loop body of _crc_ccitt_dst: one byte b folded into cword
CrcUpdate(cword, b) ==
    LET idx == Xor(RCHR[b], (cword \div 256) % 256)
    IN Xor(ICRCTAB[idx], (cword % 256) * 256) % 65536

RECURSIVE CrcFold(_, _, _)
CrcFold(cword, payload, i) ==
    IF i > Len(payload) THEN cword
    ELSE CrcFold(CrcUpdate(cword, payload[i]), payload, i + 1)

\* a variant without the final reflection
CrcNoReflectOut(cword) == cword % 65536

\* the final reflect-out of _crc_ccitt_dst
CrcReflectOut(cword) ==
    LET hi == (cword \div 256) % 256
        lo == cword % 256
    IN BitOr(RCHR[hi], RCHR[lo] * 256) % 65536

\* _crc_ccitt_dst(payload); cword starts at 0
crc_ccitt(payload) == CrcReflectOut(CrcFold(0, payload, 1))

(***************************************************************************)
(* struct.unpack("<I", b) and the Bank record.  The streams of the model   *)
(* keep the top byte of every 32-bit field below 128, so that the value    *)
(* stays within the integers of the model checker.                         *)
(***************************************************************************)
U32LE(b) == b[1] + 256 * b[2] + 65536 * b[3] + 16777216 * b[4]

\* MakeBank with the header read big-endian (">II")
U32BE(b) == 16777216 * b[1] + 65536 * b[2] + 256 * b[3] + b[4]
MakeBankBigEndian(buf) ==
    [bank_id |-> U32BE(SubSeq(buf, 1, 4)),
     bank_version |-> U32BE(SubSeq(buf, 5, 8)),
     data |-> buf]

\* struct.unpack_from("<II", bank_buf, 0) and Bank(bank_id, bank_version, data)
MakeBank(buf) ==
    [bank_id |-> U32LE(SubSeq(buf, 1, 4)),
     bank_version |-> U32LE(SubSeq(buf, 5, 8)),
     data |-> buf]

(***************************************************************************)
(* State.                                                                  *)
(*   pc        position of BankAssembler.__iter__:                         *)
(*             "scan"   read1 of line 99     "verb"  read1 of line 105      *)
(*             "blkno"  read_u32le, line 112 "skip"  read_exact(5), l. 139  *)
(*             "crc"    read_u32le, line 148 "seglen" read_u32le, line 173  *)
(*             "seg"    read_exact(seg_len), line 176                       *)
(*             "yield"  suspended at the yield of line 163                  *)
(*             "done"   returned or raised                                  *)
(*   acc       `out` of the read_exact in progress; the crc word's bytes    *)
(*             stay in it while the generator is at the yield or has raised *)
(*   seg_len   the local seg_len                                            *)
(*   started, bank_buf   the locals of the same names                       *)
(*   bank      the Bank handed over by the yield (<< >> when there is none) *)
(*   outcome   "running", "end" (return), "BankCrcMismatch", "BankTooShort" *)
(*   rem       len(_buf) - _i of _ByteStream; eof its _eof                  *)
(*   feed      where the bytes of the stream come from: any byte of the     *)
(*             alphabets below, or (scripted) the bytes of feed.rest, a     *)
(*             stream written from the segments feed.s1 and feed.s2;        *)
(*             feed.empty counts the empty payloads delivered               *)
(*   nYielded  the number of Banks yielded so far                           *)
(*   hist      history: the bytes of the segments appended since the most   *)
(*             recent bank start                                            *)
(*   opened    history: how the bank in progress began: "none",             *)
(*             "START_BANK", "RESTART" (a START_BANK that found an open     *)
(*             bank with bytes in it) or "CONTINUE" (with no bank open)     *)
(*   strays    history: a byte other than OPCODE was skipped since the last *)
(*             verb                                                         *)
(***************************************************************************)
VARIABLES pc, acc, seg_len, started, bank_buf, bank, outcome, rem, eof, feed,
          nYielded, hist, opened, strays

(***************************************************************************)
(* State of the Block Reader (blockreader.py).                             *)
(*   file      the bytes of the file at `path`                             *)
(*   fpos      the position of the handle in them                          *)
(*   fh        self._fh: "None" or "open"                                  *)
(*   idx       self._idx                                                   *)
(*   scope     where the consumer is with respect to its `with` statement: *)
(*             "before", "inside", "after"                                 *)
(*   gen       the generator of the most recent __iter__: "none" (no       *)
(*             iteration yet), "start" (created, not run), "yield"         *)
(*             (suspended at line 104), "returned", "raised"               *)
(*   blk       the pair handed over by the yield (<< >> when none)         *)
(*   err       the error raised: "none", "NotEntered" (line 86),           *)
(*             "ShortBlock" (line 92), "CrcMismatch" (line 101), "NoHandle"*)
(*             (self._fh is None at line 88)                               *)
(*   errIdx    the block index the CRC mismatch error carries              *)
(*   nIter     history: the number of __iter__ calls                       *)
(*   outs      history: the pairs the most recent generator yielded        *)
(*   badAt     history: the position in the file of the first frame that   *)
(*             failed its CRC check (NoBad when none did)                  *)
(***************************************************************************)
VARIABLES file, fpos, fh, idx, scope, gen, blk, err, errIdx, nIter, outs, badAt

(***************************************************************************)
(* State of a run of the CRC engine on its own (_crc_ccitt_dst).           *)
(*   crcIn     the bytes given to it                                       *)
(*   crcOut    its result (NoCrc before the call)                          *)
(*   crcAlt    << >>, or the record of a second call on crcIn with the     *)
(*             byte at pos replaced by byte: [pos, byte, crc]              *)
(***************************************************************************)
VARIABLES crcIn, crcOut, crcAlt

(***************************************************************************)
(* State of the Event Assembler (eventassembler.py).                       *)
(*   start_id, stop_id, keep_markers   the fields of the same names        *)
(*   in_event, banks   the locals of _iter_events                          *)
(*   evPc      position of the generator _iter_events: "loop" (at the for  *)
(*             of line 39, about to take the next Bank), "yield_start"     *)
(*             (suspended at line 43), "yield_stop" (suspended at line 52),*)
(*             "done" (returned)                                           *)
(*   cur       the loop variable `bank` while the generator is suspended   *)
(*             (<< >> otherwise)                                           *)
(*   event     the banks of the Event handed over by the yield, in a       *)
(*             one-element sequence (<< >> when there is none)             *)
(*   seen      history: the Banks taken from the Bank Assembler so far     *)
(*   emitted   history: the bank lists of the Events yielded so far        *)
(***************************************************************************)
VARIABLES start_id, stop_id, keep_markers, in_event, banks, evPc, cur, event,
          seen, emitted

(***************************************************************************)
(* State of a decoding of a whole byte stream by the Event Assembler over  *)
(* the Bank Assembler (the pipeline).                                      *)
(*   script    what was written into the stream: the ids of its banks, in  *)
(*             order, and how it ends (tail)                               *)
(*   prior     << >>, or what the first decoding of the stream came to     *)
(*             when the stream is being decoded a second time by fresh     *)
(*             instances: [emitted, evPc, outcome]                         *)
(***************************************************************************)
VARIABLES script, prior

(***************************************************************************)
(* State of one call of interpret_recipe(data, ops) (recipe_reader.py).    *)
(*   data       the bank payload, a sequence of bytes                      *)
(*   ops        the recipe, a sequence of operations                       *)
(*   offset     the cursor into data (a 0-based byte position)             *)
(*   result     the result mapping: a function from the names of the       *)
(*              fields stored so far to their values                       *)
(*   opIdx      the position of the for loop of line 61 in ops (1-based)   *)
(*   rcpPc      "op" (at the top of the loop over ops), "iter" (at the top *)
(*              of the loop of line 80), "returned", "raised"              *)
(*   loop_i     the loop index i of line 80                                *)
(*   bound      the evaluated bound of the loop of line 80                 *)
(*   collected  the list collected by the loop of line 80                  *)
(*   exc        the exception interpret_recipe raised ("none" before)      *)
(*   returned   << >>, or the mapping returned in a one-element sequence   *)
(*   extracted  history: one record per call of _unpack_values, with the   *)
(*              operation, the cursor before (at) and after (to), the      *)
(*              count, the width of the type, the values it returned (in a *)
(*              one-element sequence, << >> when it raised), whether the   *)
(*              call was made in a loop and the loop index i then          *)
(*   stored     history: the positions in ops of the operations that       *)
(*              stored their field (lines 88 and 93), in order             *)
(***************************************************************************)
VARIABLES data, ops, offset, result, opIdx, rcpPc, loop_i, bound, collected,
          exc, returned, extracted, stored

vars == << pc, acc, seg_len, started, bank_buf, bank, outcome, rem, eof, feed,
           nYielded, hist, opened, strays,
           file, fpos, fh, idx, scope, gen, blk, err, errIdx, nIter, outs, badAt,
           crcIn, crcOut, crcAlt,
           start_id, stop_id, keep_markers, in_event, banks, evPc, cur, event,
           seen, emitted, script, prior,
           data, ops, offset, result, opIdx, rcpPc, loop_i, bound, collected,
           exc, returned, extracted, stored >>

brVars == << file, fpos, fh, idx, scope, gen, blk, err, errIdx, nIter, outs, badAt >>
crcVars == << crcIn, crcOut, crcAlt >>
evVars == << start_id, stop_id, keep_markers, in_event, banks, evPc, cur, event,
             seen, emitted >>

pipeVars == << script, prior >>
rcpVars == << data, ops, offset, result, opIdx, rcpPc, loop_i, bound, collected,
             exc, returned, extracted, stored >>

\* what a specification of the Bank Assembler leaves alone
outsideAsm == << brVars, crcVars, evVars, pipeVars, rcpVars >>

NoBad == 0 - 1
NoCrc == 0 - 1

\* no call of the CRC engine on its own
NoCrcRun == crcIn = << >> /\ crcOut = NoCrc /\ crcAlt = << >>

\* no stream written for the pipeline
NoScript == script = [banks |-> << >>, tail |-> "end"] /\ prior = << >>

\* interpret_recipe was called with data d and recipe r (lines 58-59)
CallRecipe(d, r) ==
    /\ data = d /\ ops = r
    /\ offset = 0 /\ result = [f \in {} |-> 0]
    /\ opIdx = 1 /\ rcpPc = "op"
    /\ loop_i = 0 /\ bound = 0 /\ collected = << >>
    /\ exc = "none" /\ returned = << >> /\ extracted = << >>
    /\ stored = << >>

\* no recipe is interpreted
NoRecipe == CallRecipe(<< >>, << >>)

\* the Event Assembler with markers s and t and keep_markers k, at the head
\* of _iter_events (lines 21-30, 36-37)
NewEventAssembler(s, t, k) ==
    /\ start_id = s /\ stop_id = t /\ keep_markers = k
    /\ in_event = FALSE /\ banks = << >>
    /\ evPc = "loop" /\ cur = << >> /\ event = << >>
    /\ seen = << >> /\ emitted = << >>

\* the Block Reader as constructed (lines 66-69), over the file f
NewReader(f) ==
    /\ file = f /\ fpos = 0 /\ fh = "None" /\ idx = 0
    /\ scope = "before" /\ gen = "none" /\ blk = << >>
    /\ err = "none" /\ errIdx = 0
    /\ nIter = 0 /\ outs = << >> /\ badAt = NoBad

asmVars == << pc, acc, seg_len, started, bank_buf, bank, outcome, nYielded >>
ghostVars == << hist, opened, strays >>

(***************************************************************************)
(* The input alphabets: the bytes an unscripted stream offers at each      *)
(* position.  Every stream over them is a byte stream the assembler can be *)
(* given.                                                                  *)
(***************************************************************************)
\* bytes other than OPCODE met while scanning
StrayBytes == {0, START_BANK, END_BANK, 95, START_BLOCK, 255}
\* verb bytes: every named verb, OPCODE itself and an unnamed one
\* verbs with no branch of their own (line 168): OPCODE itself and the
\* values next to the named verbs
OtherVerbs == {0, 6, 9, 13, 16, 95, OPCODE, 101, 255}
\* verb bytes: every named verb and the unnamed ones
BlockVerbs == {START_BLOCK, END_BLOCK_LOGICAL, END_BLOCK_PHYSICAL, FILLER}
BankVerbs == {START_BANK, CONTINUE, END_BANK, TO_BE_CONTD}
VerbBytes == BlockVerbs \cup BankVerbs \cup OtherVerbs
\* bytes of a discarded field (block number, the 5 bytes after TO_BE_CONTD)
SkipBytes == {0, OPCODE, END_BANK}
\* byte p (1, 2, ...) of a bank's data: the low bytes of the id and of the
\* version vary, and so do a high byte of the id and the bytes after the header
DataBytes(p) ==
    IF p = 1 THEN {1, OPCODE}
    ELSE IF p = 2 THEN {0, 1}
    ELSE IF p = 5 THEN {1, 2}
    ELSE IF p >= 8 THEN {0, OPCODE}
    ELSE {0}
\* the next byte of a segment length field, after the bytes `got`: lengths
\* 0, 3, 5 and 8, and one that no stream of the model is long enough for
LenBytes(got) ==
    IF Len(got) = 0 THEN {0, 3, 5, 8}
    ELSE IF Len(got) = 1 /\ got[1] = 3 THEN {0, 1}
    ELSE {0}
\* byte k (1..4) of the trailer after END_BANK: the byte of the CRC of buf,
\* a wrong one, and high bytes that are zero or not
CrcBytes(k, buf) ==
    LET c == crc_ccitt(buf)
    IN IF k = 1 THEN {c % 256, ((c % 256) + 1) % 256}
       ELSE IF k = 2 THEN {c \div 256, ((c \div 256) + 1) % 256}
       ELSE IF k = 3 THEN {0, 255}
       ELSE {0, 127}

Alphabet ==
    CASE pc = "scan" -> StrayBytes \cup {OPCODE}
      [] pc = "verb" -> VerbBytes
      [] pc \in {"blkno", "skip"} -> SkipBytes
      [] pc = "seglen" -> LenBytes(acc)
      [] pc = "seg" -> DataBytes(Len(bank_buf) + Len(acc) + 1)
      [] pc = "crc" -> CrcBytes(Len(acc) + 1, bank_buf)
      [] OTHER -> {}

\* the bytes the stream may deliver next
NextBytes ==
    IF ~feed.scripted THEN Alphabet
    ELSE IF feed.rest = << >> THEN {}
    ELSE {Head(feed.rest)}

(***************************************************************************)
(* _ByteStream (bankassembler.py lines 27-75).                             *)
(***************************************************************************)
\* TO_BE_CONTD_SKIP one too small
SkipFour == 5 - 1

\* line 139: the bytes skipped after TO_BE_CONTD
TO_BE_CONTD_SKIP == 5

\* the number of bytes the read_exact in progress asks for
Want ==
    CASE pc \in {"blkno", "crc", "seglen"} -> 4
      [] pc = "skip" -> TO_BE_CONTD_SKIP
      [] pc = "seg" -> seg_len
      [] OTHER -> 0

\* the generator is inside read1 or in the loop of read_exact
NeedsByte ==
    \/ pc \in {"scan", "verb"}
    \/ pc \in {"blkno", "skip", "crc", "seglen", "seg"} /\ Len(acc) < Want

\* the payload lengths the block iterator may deliver next (a Block Reader
\* payload is never empty)
BlockLens ==
    IF feed.scripted
    THEN 1..(IF Len(feed.rest) < MaxBlockLen THEN Len(feed.rest) ELSE MaxBlockLen)
    ELSE 1..MaxBlockLen

\* _fill, lines 39-45, for a read that gets a byte: the bytes left in the
\* current payload after it, a new payload being fetched when the current
\* one is used up (and next() has one)
FillNext(r) ==
    IF rem > 0 THEN r = rem - 1
    ELSE ~eof /\ \E n \in BlockLens : r = n - 1

\* _fill, lines 41-42 and 46-49, for a read that gets None: _eof is set
\* already, or the current payload is used up and next() raises StopIteration
FillStop ==
    /\ rem = 0
    /\ eof \/ (feed.scripted => feed.rest = << >>)

\* read1, lines 55-57, and read_exact, lines 66-68: one byte leaves the stream
Take ==
    /\ FillNext(rem')
    /\ feed' = IF feed.scripted THEN [feed EXCEPT !.rest = Tail(@)] ELSE feed
    /\ UNCHANGED eof

\* a byte is there to take
HasByte == rem > 0 \/ (~eof /\ (feed.scripted => feed.rest # << >>))

(***************************************************************************)
(* BankAssembler.__iter__ (bankassembler.py lines 93-179).                 *)
(***************************************************************************)
\* ScanTarget that gives up at the first stray byte
ScanTargetStopsOnStray(b) == IF b # OPCODE THEN "done" ELSE "verb"

\* lines 102-105: where a byte read while seeking OPCODE sends the generator
ScanTarget(b) == IF b # OPCODE THEN "scan" ELSE "verb"

\* lines 99-103: a byte read while seeking OPCODE
ScanByte(b) ==
    /\ pc = "scan" /\ HasByte /\ b \in NextBytes
    /\ Take
    /\ pc' = ScanTarget(b)
    /\ strays' = IF b # OPCODE THEN TRUE ELSE strays
    /\ UNCHANGED << acc, seg_len, started, bank_buf, bank, outcome, nYielded,
                    hist, opened >>

ReadScan == \E b \in NextBytes : ScanByte(b)

\* VerbTarget with an OPCODE after OPCODE that announces the verb again
VerbTargetOpcodeAgain(v) ==
    CASE v = START_BLOCK -> "blkno"
      [] v \in {START_BANK, CONTINUE} -> "seglen"
      [] v = TO_BE_CONTD -> "skip"
      [] v = END_BANK -> "crc"
      [] v = OPCODE -> "verb"
      [] OTHER -> "scan"

\* VerbTarget with FILLER followed by a 4-byte field like START_BLOCK
VerbTargetFillerSkips(v) ==
    CASE v \in {START_BLOCK, FILLER} -> "blkno"
      [] v \in {START_BANK, CONTINUE} -> "seglen"
      [] v = TO_BE_CONTD -> "skip"
      [] v = END_BANK -> "crc"
      [] OTHER -> "scan"

\* where the verb sends the generator (lines 110-170)
VerbTarget(v) ==
    CASE v = START_BLOCK -> "blkno"
      [] v \in {END_BLOCK_LOGICAL, END_BLOCK_PHYSICAL} -> "scan"
      [] v = FILLER -> "scan"
      [] v \in {START_BANK, CONTINUE} -> "seglen"
      [] v = TO_BE_CONTD -> "skip"
      [] v = END_BANK -> "crc"
      [] OTHER -> "scan"

\* VerbStarted with a CONTINUE that opens no bank
VerbStartedContinueNoOpen(v, st) ==
    IF v = START_BANK THEN TRUE ELSE st

\* the flag `started` after the verb (lines 126, 132-133)
VerbStarted(v, st) ==
    IF v \in {START_BANK, CONTINUE} THEN TRUE ELSE st

\* VerbBuf with a CONTINUE that always clears the buffer
VerbBufContinueClears(v, st, buf) ==
    IF v \in {START_BANK, CONTINUE} THEN << >> ELSE buf

\* VerbBuf with a START_BANK that clears only when no bank is open
VerbBufStartKeeps(v, st, buf) ==
    IF v \in {START_BANK, CONTINUE} /\ ~st THEN << >> ELSE buf

\* bank_buf after the verb (lines 127, 132-134)
VerbBuf(v, st, buf) ==
    CASE v = START_BANK -> << >>
      [] v = CONTINUE -> IF ~st THEN << >> ELSE buf
      [] OTHER -> buf

\* lines 105-170: the verb byte is read and dispatched
VerbByte(v) ==
    /\ pc = "verb" /\ HasByte /\ v \in NextBytes
    /\ Take
    /\ pc' = VerbTarget(v)
    /\ started' = VerbStarted(v, started)
    /\ bank_buf' = VerbBuf(v, started, bank_buf)
    /\ acc' = << >>
    /\ hist' = IF v = START_BANK \/ (v = CONTINUE /\ ~started) THEN << >> ELSE hist
    /\ opened' = CASE v = START_BANK /\ started /\ bank_buf # << >> -> "RESTART"
                   [] v = START_BANK -> "START_BANK"
                   [] v = CONTINUE /\ ~started -> "CONTINUE"
                   [] OTHER -> opened
    /\ strays' = FALSE
    /\ UNCHANGED << seg_len, bank, outcome, nYielded >>

ReadVerb == \E v \in NextBytes : VerbByte(v)

\* what read_exact keeps of a byte: the bytes of the block number and of the
\* 5 bytes after TO_BE_CONTD are dropped by the caller, so only their number
\* is kept
Kept(b) == IF pc \in {"blkno", "skip"} THEN 0 ELSE b

\* lines 61-68: read_exact takes one more byte (the streams of the model end
\* before a bank buffer grows beyond MaxBuf)
FieldByte(b) ==
    /\ pc \in {"blkno", "skip", "crc", "seglen", "seg"}
    /\ Len(acc) < Want /\ HasByte /\ b \in NextBytes
    /\ pc = "seg" => Len(bank_buf) + Len(acc) < MaxBuf
    /\ Take
    /\ acc' = Append(acc, Kept(b))
    /\ UNCHANGED << pc, seg_len, started, bank_buf, bank, outcome, nYielded,
                    ghostVars >>

ReadField == \E b \in NextBytes : FieldByte(b)

\* lines 112-113 and 139-143: the discarded field is complete
SkipDone ==
    /\ pc \in {"blkno", "skip"} /\ Len(acc) = Want
    /\ pc' = "scan" /\ acc' = << >>
    /\ UNCHANGED << seg_len, started, bank_buf, bank, outcome, nYielded,
                    ghostVars, rem, eof, feed >>

\* lines 173-175: the length of the segment is read
SegLenDone ==
    /\ pc = "seglen" /\ Len(acc) = Want
    /\ seg_len' = U32LE(acc)
    /\ pc' = "seg" /\ acc' = << >>
    /\ UNCHANGED << started, bank_buf, bank, outcome, nYielded, ghostVars,
                    rem, eof, feed >>

\* AppendSeg with the segment put in front
AppendSegFront(buf, seg) == seg \o buf

\* line 179: bank_buf += seg
AppendSeg(buf, seg) == buf \o seg

\* lines 176-179: the segment is read and appended (seg and seg_len are not
\* read again before they are assigned; they are cleared here)
SegDone ==
    /\ pc = "seg" /\ Len(acc) = Want
    /\ bank_buf' = AppendSeg(bank_buf, acc)
    /\ hist' = hist \o acc
    /\ pc' = "scan" /\ acc' = << >> /\ seg_len' = 0
    /\ UNCHANGED << started, bank, outcome, nYielded, opened, strays, rem, eof,
                    feed >>

\* CrcMatches on the low byte alone
CrcMatchesLowByte(word, buf) == (crc_ccitt(buf) % 256) = (word % 256)

\* lines 151-153: the trailer's low 16 bits against the CRC of the buffer
CrcMatches(word, buf) == (crc_ccitt(buf) % 65536) = (word % 65536)

\* EndBankOutcome with the length looked at before the CRC
EndBankOutcomeLengthFirst(word, buf) ==
    IF Len(buf) < 8 THEN "BankTooShort"
    ELSE IF (crc_ccitt(buf) % 65536) # (word % 65536) THEN "BankCrcMismatch"
    ELSE "yield"

\* lines 151-161: what END_BANK comes to
EndBankOutcome(word, buf) ==
    IF ~CrcMatches(word, buf) THEN "BankCrcMismatch"
    ELSE IF Len(buf) < 8 THEN "BankTooShort"
    ELSE "yield"

\* lines 148-163: the trailer is read; raise, or yield the Bank
EndBankCheck ==
    /\ pc = "crc" /\ Len(acc) = Want
    /\ LET r == EndBankOutcome(U32LE(acc), bank_buf)
       IN IF r = "yield"
          THEN /\ pc' = "yield"
               /\ bank' = << MakeBank(bank_buf) >>
               /\ nYielded' = nYielded + 1
               /\ UNCHANGED outcome
          ELSE /\ pc' = "done"
               /\ outcome' = r
               /\ UNCHANGED << bank, nYielded >>
    /\ UNCHANGED << acc, seg_len, started, bank_buf, ghostVars, rem, eof, feed >>

\* lines 164-166: the generator goes on after its yield
ResumeBank ==
    /\ pc = "yield"
    /\ started' = FALSE
    /\ bank_buf' = << >>
    /\ bank' = << >>
    /\ pc' = "scan" /\ acc' = << >>
    /\ hist' = << >> /\ opened' = "none"
    /\ UNCHANGED << seg_len, outcome, nYielded, strays, rem, eof, feed >>

\* the consumer asks for the next Bank (it stops pulling after MaxBanks of
\* them)
Resume == nYielded < MaxBanks /\ ResumeBank

\* a variant that takes the None of a read for a byte to skip
EofReturnScansOn ==
    /\ NeedsByte /\ FillStop /\ pc # "blkno"
    /\ eof' = TRUE
    /\ pc' = "scan" /\ acc' = << >>
    /\ UNCHANGED << seg_len, started, bank_buf, bank, outcome, nYielded,
                    ghostVars, rem, feed >>

\* a variant that raises when the stream ends inside a segment
EofReturnRaises ==
    /\ NeedsByte /\ FillStop /\ pc # "blkno"
    /\ eof' = TRUE
    /\ pc' = "done"
    /\ outcome' = IF pc = "seg" THEN "TruncatedSegment" ELSE "end"
    /\ UNCHANGED << acc, seg_len, started, bank_buf, bank, nYielded, ghostVars,
                    rem, feed >>

\* lines 100-101, 106-107, 140-141, 149-150, 174-175, 177-178: the read
\* returned None and the generator returns
EofReturn ==
    /\ NeedsByte /\ FillStop /\ pc # "blkno"
    /\ eof' = TRUE
    /\ pc' = "done" /\ outcome' = "end"
    /\ UNCHANGED << acc, seg_len, started, bank_buf, bank, nYielded, ghostVars,
                    rem, feed >>

\* lines 112-113: read_u32le returned None; the loop goes on (and ends at the
\* next read1)
EofBlkno ==
    /\ pc = "blkno" /\ NeedsByte /\ FillStop
    /\ eof' = TRUE
    /\ pc' = "scan" /\ acc' = << >>
    /\ UNCHANGED << seg_len, started, bank_buf, bank, outcome, nYielded,
                    ghostVars, rem, feed >>

(***************************************************************************)
(* Specification: the assembler over every stream of the alphabets.        *)
(***************************************************************************)
InitAsm ==
    /\ pc = "scan" /\ acc = << >> /\ seg_len = 0
    /\ started = FALSE /\ bank_buf = << >> /\ bank = << >>
    /\ outcome = "running" /\ nYielded = 0
    /\ rem = 0 /\ eof = FALSE
    /\ hist = << >> /\ opened = "none" /\ strays = FALSE

Init ==
    /\ InitAsm
    /\ feed = [scripted |-> FALSE, rest |-> << >>, s1 |-> << >>, s2 |-> << >>,
               empty |-> 0]
    /\ NewReader(<< >>)
    /\ NoCrcRun
    /\ NewEventAssembler(0, 0, FALSE)
    /\ NoScript
    /\ NoRecipe

Next ==
    \/ ReadScan /\ UNCHANGED outsideAsm
    \/ ReadVerb /\ UNCHANGED outsideAsm
    \/ ReadField /\ UNCHANGED outsideAsm
    \/ SkipDone /\ UNCHANGED outsideAsm
    \/ SegLenDone /\ UNCHANGED outsideAsm
    \/ SegDone /\ UNCHANGED outsideAsm
    \/ EndBankCheck /\ UNCHANGED outsideAsm
    \/ Resume /\ UNCHANGED outsideAsm
    \/ EofReturn /\ UNCHANGED outsideAsm
    \/ EofBlkno /\ UNCHANGED outsideAsm

Spec == Init /\ [][Next]_vars

TypeOK ==
    /\ pc \in {"scan", "verb", "blkno", "skip", "crc", "seglen", "seg", "yield", "done"}
    /\ started \in BOOLEAN /\ eof \in BOOLEAN
    /\ rem \in 0..(MaxBlockLen + 1)
    /\ Len(bank_buf) <= MaxBuf + 1
    /\ Len(bank) <= 1
    /\ outcome \in {"running", "end", "BankCrcMismatch", "BankTooShort"}

(***************************************************************************)
(* Specification: the assembler over a written two-segment bank,           *)
(*   OPCODE START_BANK len(S1) S1  OPCODE TO_BE_CONTD x5                    *)
(*   OPCODE CONTINUE len(S2) S2    OPCODE END_BANK crc(S1 S2) hi hi/2       *)
(* cut into block payloads in every way.                                   *)
(***************************************************************************)
\* struct.pack("<I", n)
Pack32(n) == << n % 256, (n \div 256) % 256, (n \div 65536) % 256, (n \div 16777216) % 256 >>

\* the data of length n the alphabets allow
RECURSIVE BankData(_)
BankData(n) ==
    IF n = 0 THEN { << >> }
    ELSE { Append(d, b) : d \in BankData(n - 1), b \in DataBytes(n) }

\* two 5-byte fills after TO_BE_CONTD: opcode bytes, and an END_BANK verb
FiveBytes == { << OPCODE, OPCODE, OPCODE, OPCODE, OPCODE >>,
               << 0, OPCODE, END_BANK, 0, 0 >> }

TwoSegmentStream(s1, s2, five, hi) ==
    << OPCODE, START_BANK >> \o Pack32(Len(s1)) \o s1
    \o << OPCODE, TO_BE_CONTD >> \o five
    \o << OPCODE, CONTINUE >> \o Pack32(Len(s2)) \o s2
    \o << OPCODE, END_BANK >>
    \o << crc_ccitt(s1 \o s2) % 256, crc_ccitt(s1 \o s2) \div 256, hi, hi \div 2 >>

InitScript ==
    /\ InitAsm
    /\ \E n \in 8..MaxBuf : \E d \in BankData(n) : \E k \in 0..n :
       \E five \in FiveBytes : \E hi \in {0, 255} :
         LET s1 == SubSeq(d, 1, k)
             s2 == SubSeq(d, k + 1, n)
         IN feed = [scripted |-> TRUE, rest |-> TwoSegmentStream(s1, s2, five, hi),
                    s1 |-> s1, s2 |-> s2, empty |-> 0]
    /\ NewReader(<< >>)
    /\ NoCrcRun
    /\ NewEventAssembler(0, 0, FALSE)
    /\ NoScript
    /\ NoRecipe

NextScript ==
    \/ ReadScan /\ UNCHANGED outsideAsm
    \/ ReadVerb /\ UNCHANGED outsideAsm
    \/ ReadField /\ UNCHANGED outsideAsm
    \/ SkipDone /\ UNCHANGED outsideAsm
    \/ SegLenDone /\ UNCHANGED outsideAsm
    \/ SegDone /\ UNCHANGED outsideAsm
    \/ EndBankCheck /\ UNCHANGED outsideAsm
    \/ Resume /\ UNCHANGED outsideAsm
    \/ EofReturn /\ UNCHANGED outsideAsm

SpecScript == InitScript /\ [][NextScript]_vars

(***************************************************************************)
(* BlockReader (blockreader.py lines 60-105).  The frames of the model are *)
(* BLOCK_LEN bytes long with BLOCK_LEN far below the 32000 of line 10: a   *)
(* frame is a payload of BLOCK_LEN - 4 bytes and a 4-byte trailer.         *)
(***************************************************************************)
\* the length of a frame in the model
BLOCK_LEN == 6
\* the number of whole frames of a file
MaxFrames == 2
\* the number of __iter__ calls the consumer makes
MaxIters == 2

Min(a, b) == IF a < b THEN a ELSE b

\* the payloads of the model's files
FramePayloads ==
    { [i \in 1..(BLOCK_LEN - 4) |-> IF i = 1 THEN b ELSE 0] : b \in {1, OPCODE} }

\* the trailers written after payload p: the CRC of p with the high 16 bits
\* clear or set, and a CRC wrong in its low or in its high byte
FrameTrailers(p) ==
    LET c == crc_ccitt(p)
    IN { << c % 256, c \div 256, 0, 0 >>,
         << c % 256, c \div 256, 255, 127 >>,
         << (c + 1) % 256, c \div 256, 0, 0 >>,
         << c % 256, ((c \div 256) + 1) % 256, 0, 0 >> }

Frames == UNION { { p \o t : t \in FrameTrailers(p) } : p \in FramePayloads }

\* the files of n whole frames
RECURSIVE WholeFrames(_)
WholeFrames(n) ==
    IF n = 0 THEN { << >> }
    ELSE { f \o fr : f \in WholeFrames(n - 1), fr \in Frames }

\* a truncated last frame: nothing, one byte, or all but the last byte of a
\* frame with a correct CRC
FileTails ==
    LET p == [i \in 1..(BLOCK_LEN - 4) |-> 1]
        c == crc_ccitt(p)
        fr == p \o << c % 256, c \div 256, 0, 0 >>
    IN { << >>, SubSeq(fr, 1, 1), SubSeq(fr, 1, BLOCK_LEN - 1) }

Files == UNION { { f \o t : f \in WholeFrames(n), t \in FileTails } : n \in 0..MaxFrames }

\* line 88: self._fh.read(BLOCK_LEN) at position pos of f
ReadBlock(f, pos) == SubSeq(f, pos + 1, Min(pos + BLOCK_LEN, Len(f)))

\* a variant that cuts only two bytes off the block
PayloadShortCut(block) == SubSeq(block, 1, Len(block) - 2)

\* line 94: block[:-4], and line 96: block[-4:]
Payload(block) == SubSeq(block, 1, Len(block) - 4)
Trailer(block) == SubSeq(block, Len(block) - 3, Len(block))

\* a variant that compares all 32 bits of the trailer
CrcExpectedAllBits(trailer) == U32LE(trailer)

\* lines 96-97: crc_le32 & 0xFFFF
CrcExpected(trailer) == U32LE(trailer) % 65536

\* a variant that ends the sequence at a short read
BlockOutcomeDropsShort(block) ==
    IF Len(block) # BLOCK_LEN THEN "return"
    ELSE IF crc_ccitt(Payload(block)) # CrcExpected(Trailer(block)) THEN "CrcMismatch"
    ELSE "yield"

\* lines 89-104: what the block read comes to
BlockOutcome(block) ==
    IF block = << >> THEN "return"
    ELSE IF Len(block) # BLOCK_LEN THEN "ShortBlock"
    ELSE IF crc_ccitt(Payload(block)) # CrcExpected(Trailer(block)) THEN "CrcMismatch"
    ELSE "yield"

\* lines 71-77: __enter__, at the head of the consumer's `with` statement
Enter ==
    /\ scope = "before"
    /\ scope' = "inside"
    /\ fh' = "open" /\ fpos' = 0
    /\ idx' = 0
    /\ UNCHANGED << file, gen, blk, err, errIdx, nIter, outs, badAt >>

\* a variant that leaves the handle open
ExitKeepsHandle ==
    /\ scope = "inside"
    /\ scope' = "after"
    /\ UNCHANGED << file, fpos, fh, idx, gen, blk, err, errIdx, nIter, outs, badAt >>

\* lines 79-82: __exit__, when the consumer leaves the `with` statement
\* (at its end, by a break or by an exception)
Exit ==
    /\ scope = "inside"
    /\ scope' = "after"
    /\ fh' = "None"
    /\ UNCHANGED << file, fpos, idx, gen, blk, err, errIdx, nIter, outs, badAt >>

\* line 84: iter(reader) makes a new generator; none of its body runs yet
Iter ==
    /\ nIter < MaxIters
    /\ nIter' = nIter + 1
    /\ gen' = "start" /\ blk' = << >> /\ outs' = << >>
    /\ err' = "none" /\ errIdx' = 0
    /\ UNCHANGED << file, fpos, fh, idx, scope, badAt >>

\* lines 85-105: next() on the generator runs it to its next yield, to its
\* return or to a raise; resumed at the yield it first counts the block
\* (line 105)
Pull ==
    /\ gen \in {"start", "yield"}
    /\ LET i == IF gen = "yield" THEN idx + 1 ELSE idx
           block == ReadBlock(file, fpos)
           r == IF fh = "None"
                THEN (IF gen = "start" THEN "NotEntered" ELSE "NoHandle")
                ELSE BlockOutcome(block)
       IN /\ idx' = i
          /\ fpos' = IF fh = "None" THEN fpos ELSE fpos + Len(block)
          /\ gen' = CASE r = "yield" -> "yield"
                      [] r = "return" -> "returned"
                      [] OTHER -> "raised"
          /\ err' = IF r \in {"yield", "return"} THEN "none" ELSE r
          /\ errIdx' = IF r = "CrcMismatch" THEN i ELSE 0
          /\ blk' = IF r = "yield"
                    THEN << [idx |-> i, payload |-> Payload(block)] >>
                    ELSE << >>
          /\ outs' = IF r = "yield"
                     THEN Append(outs, [idx |-> i, payload |-> Payload(block)])
                     ELSE outs
          /\ badAt' = IF r = "CrcMismatch" /\ badAt = NoBad THEN fpos ELSE badAt
    /\ UNCHANGED << file, fh, scope, nIter >>

\* what a specification of the Block Reader leaves alone
outsideBr == << pc, acc, seg_len, started, bank_buf, bank, outcome, rem, eof,
                feed, nYielded, hist, opened, strays, crcVars, evVars, pipeVars, rcpVars >>

InitBlock ==
    /\ InitAsm
    /\ feed = [scripted |-> FALSE, rest |-> << >>, s1 |-> << >>, s2 |-> << >>,
               empty |-> 0]
    /\ \E f \in Files : NewReader(f)
    /\ NoCrcRun
    /\ NewEventAssembler(0, 0, FALSE)
    /\ NoScript
    /\ NoRecipe

NextBlock ==
    \/ Enter /\ UNCHANGED outsideBr
    \/ Exit /\ UNCHANGED outsideBr
    \/ Iter /\ UNCHANGED outsideBr
    \/ Pull /\ UNCHANGED outsideBr

SpecBlock == InitBlock /\ [][NextBlock]_vars

TypeOKBlock ==
    /\ fpos \in 0..Len(file)
    /\ fh \in {"None", "open"}
    /\ scope \in {"before", "inside", "after"}
    /\ gen \in {"none", "start", "yield", "returned", "raised"}
    /\ err \in {"none", "NotEntered", "ShortBlock", "CrcMismatch", "NoHandle"}
    /\ Len(blk) <= 1
    /\ nIter \in 0..MaxIters

(***************************************************************************)
(* The CRC engine on its own: _crc_ccitt_dst is called on a byte sequence, *)
(* and then once more on the sequence with one byte replaced.              *)
(***************************************************************************)
\* the longest input
MaxCrcLen == 3

\* the bytes of the inputs longer than one byte
CrcTailBytes == {1, 255}

\* the inputs of length n: every byte for n = 1, CrcTailBytes beyond
RECURSIVE CrcInputsOfLen(_)
CrcInputsOfLen(n) ==
    IF n = 0 THEN { << >> }
    ELSE IF n = 1 THEN { << b >> : b \in 0..255 }
    ELSE { Append(p, b) : p \in { q \in CrcInputsOfLen(n - 1) : q[1] \in CrcTailBytes },
                          b \in CrcTailBytes }

CrcInputs == UNION { CrcInputsOfLen(n) : n \in 0..MaxCrcLen }

\* lines 45-57: crc = _crc_ccitt_dst(crcIn)
CrcRun ==
    /\ crcOut = NoCrc
    /\ crcOut' = crc_ccitt(crcIn)
    /\ UNCHANGED << crcIn, crcAlt >>

\* lines 45-57: _crc_ccitt_dst on crcIn with byte i replaced by b
CrcRunCorrupted(i, b) ==
    /\ crcOut # NoCrc /\ crcAlt = << >>
    /\ b # crcIn[i]
    /\ crcAlt' = << [pos |-> i, byte |-> b,
                     crc |-> crc_ccitt([crcIn EXCEPT ![i] = b])] >>
    /\ UNCHANGED << crcIn, crcOut >>

CrcRunOnCorrupted == \E i \in 1..Len(crcIn) : \E b \in 0..255 : CrcRunCorrupted(i, b)

\* what a specification of the CRC engine leaves alone
outsideCrc == << pc, acc, seg_len, started, bank_buf, bank, outcome, rem, eof,
                 feed, nYielded, hist, opened, strays, brVars, evVars, pipeVars, rcpVars >>

InitCrc ==
    /\ InitAsm
    /\ feed = [scripted |-> FALSE, rest |-> << >>, s1 |-> << >>, s2 |-> << >>,
               empty |-> 0]
    /\ NewReader(<< >>)
    /\ crcIn \in CrcInputs /\ crcOut = NoCrc /\ crcAlt = << >>
    /\ NewEventAssembler(0, 0, FALSE)
    /\ NoScript
    /\ NoRecipe

NextCrc ==
    \/ CrcRun /\ UNCHANGED outsideCrc
    \/ CrcRunOnCorrupted /\ UNCHANGED outsideCrc

SpecCrc == InitCrc /\ [][NextCrc]_vars

(***************************************************************************)
(* EventAssembler._iter_events (eventassembler.py lines 35-58) over the    *)
(* Banks the Bank Assembler hands it one by one.                           *)
(***************************************************************************)
\* the number of Banks the Bank Assembler yields before it ends
MaxEvBanks == 5

\* the bank ids of the model: two markers and two others
EvBankIds == {1, 2, 3, 4}

\* the Bank with id n and version 1 that is the k-th to arrive; its one data
\* byte after the header is k, so that every Bank taken differs from the others
EvBank(n, k) == MakeBank(<< n, 0, 0, 0, 1, 0, 0, 0, k >>)

\* a variant that keeps the start marker whatever keep_markers is
BanksAtStartKeepsMarker(keep, b) == << b >>

\* line 45: banks = [bank] if self.keep_markers else []
BanksAtStart(keep, b) == IF keep THEN << b >> ELSE << >>

\* a variant that never appends the stop marker
BanksAtStopDropsMarker(keep, bs, b) == bs

\* a variant that puts the stop marker in front
BanksAtStopPrepends(keep, bs, b) == IF keep THEN << b >> \o bs ELSE bs

\* lines 50-51: if self.keep_markers: banks.append(bank)
BanksAtStop(keep, bs, b) == IF keep THEN Append(bs, b) ELSE bs

\* a variant that appends the Bank also when no event is open
BanksAtOtherAlwaysAppends(open, bs, b) == Append(bs, b)

\* lines 57-58: if in_event: banks.append(bank)
BanksAtOther(open, bs, b) == IF open THEN Append(bs, b) ELSE bs

\* lines 39-58: the for loop takes the Bank b and runs its body to the next
\* yield or to the end of the body
EvTake(b) ==
    /\ evPc = "loop" /\ Len(seen) < MaxEvBanks
    /\ seen' = Append(seen, b)
    /\ IF b.bank_id = start_id
       THEN IF in_event /\ banks # << >>
            THEN /\ evPc' = "yield_start" /\ cur' = << b >>
                 /\ event' = << banks >>
                 /\ emitted' = Append(emitted, banks)
                 /\ UNCHANGED << in_event, banks >>
            ELSE /\ in_event' = TRUE
                 /\ banks' = BanksAtStart(keep_markers, b)
                 /\ UNCHANGED << evPc, cur, event, emitted >>
       ELSE IF b.bank_id = stop_id
       THEN IF in_event
            THEN /\ banks' = BanksAtStop(keep_markers, banks, b)
                 /\ evPc' = "yield_stop" /\ cur' = << b >>
                 /\ event' = << banks' >>
                 /\ emitted' = Append(emitted, banks')
                 /\ UNCHANGED in_event
            ELSE /\ in_event' = FALSE
                 /\ banks' = << >>
                 /\ UNCHANGED << evPc, cur, event, emitted >>
       ELSE /\ banks' = BanksAtOther(in_event, banks, b)
            /\ UNCHANGED << in_event, evPc, cur, event, emitted >>
    /\ UNCHANGED << start_id, stop_id, keep_markers >>

EvTakeBank == \E n \in EvBankIds : EvTake(EvBank(n, Len(seen) + 1))

\* lines 44-46 and 53-55: the consumer asks for the next Event and the
\* generator runs on from its yield to the end of the loop body
EvResume ==
    /\ evPc \in {"yield_start", "yield_stop"}
    /\ in_event' = (evPc = "yield_start")
    /\ banks' = IF evPc = "yield_start"
                THEN BanksAtStart(keep_markers, cur[1])
                ELSE << >>
    /\ evPc' = "loop" /\ cur' = << >> /\ event' = << >>
    /\ UNCHANGED << start_id, stop_id, keep_markers, seen, emitted >>

\* a variant that emits the banks of an open event at the end
EvEndFlushes ==
    /\ evPc = "loop"
    /\ evPc' = "done"
    /\ emitted' = IF in_event /\ banks # << >> THEN Append(emitted, banks) ELSE emitted
    /\ UNCHANGED << start_id, stop_id, keep_markers, in_event, banks, cur,
                    event, seen >>

\* line 39: the Bank Assembler has no more Banks; the generator returns
EvEnd ==
    /\ evPc = "loop"
    /\ evPc' = "done"
    /\ UNCHANGED << start_id, stop_id, keep_markers, in_event, banks, cur,
                    event, seen, emitted >>

\* what a specification of the Event Assembler leaves alone
outsideEv == << pc, acc, seg_len, started, bank_buf, bank, outcome, rem, eof,
                feed, nYielded, hist, opened, strays, brVars, crcVars, pipeVars, rcpVars >>

InitEvent ==
    /\ InitAsm
    /\ feed = [scripted |-> FALSE, rest |-> << >>, s1 |-> << >>, s2 |-> << >>,
               empty |-> 0]
    /\ NewReader(<< >>)
    /\ NoCrcRun
    /\ \E t \in {1, 2} : \E k \in BOOLEAN : NewEventAssembler(1, t, k)
    /\ NoScript
    /\ NoRecipe

NextEvent ==
    \/ EvTakeBank /\ UNCHANGED outsideEv
    \/ EvResume /\ UNCHANGED outsideEv
    \/ EvEnd /\ UNCHANGED outsideEv

SpecEvent == InitEvent /\ [][NextEvent]_vars

TypeOKEvent ==
    /\ in_event \in BOOLEAN /\ keep_markers \in BOOLEAN
    /\ evPc \in {"loop", "yield_start", "yield_stop", "done"}
    /\ Len(seen) <= MaxEvBanks
    /\ Len(event) <= 1 /\ Len(cur) <= 1

(***************************************************************************)
(* The pipeline: EventAssembler._iter_events pulls its Banks from          *)
(* BankAssembler.__iter__ (eventassembler.py line 39), which reads a       *)
(* written byte stream cut into block payloads in every way.  The stream   *)
(* is a sequence of banks, each OPCODE START_BANK len data OPCODE END_BANK *)
(* crc or written in two segments, followed by a tail.                     *)
(***************************************************************************)
\* the number of whole banks written into the stream
MaxPipeBanks == 3

\* the bank ids of the stream: the start marker, the stop marker, another
PipeIds == {1, 2, 3}

\* how a stream ends after its banks: cleanly; with one more bank, written
\* in two segments; with a bank whose trailer is wrong; with a bank of 4
\* bytes; inside a bank, by an error of the Block Reader
PipeTails == {"end", "split", "badcrc", "short", "ShortBlock", "CrcMismatch"}

\* the data of the k-th bank of the stream, with id n
PipeData(n, k) == << n, 0, 0, 0, 1, 0, 0, 0, k >>

\* a bank written in one segment, with the CRC c in its trailer
PlainBankStream(d, c) ==
    << OPCODE, START_BANK >> \o Pack32(Len(d)) \o d
    \o << OPCODE, END_BANK >> \o Pack32(c)

PipeBankStream(n, k) == PlainBankStream(PipeData(n, k), crc_ccitt(PipeData(n, k)))

PipeTailStream(t, k) ==
    LET d == PipeData(3, k)
    IN CASE t = "end" -> << >>
         [] t = "split" ->
              TwoSegmentStream(SubSeq(d, 1, 4), SubSeq(d, 5, Len(d)),
                               << OPCODE, OPCODE, OPCODE, OPCODE, OPCODE >>, 0)
         [] t = "badcrc" -> PlainBankStream(d, (crc_ccitt(d) + 1) % 65536)
         [] t = "short" -> PlainBankStream(<< 3, 0, 0, 0 >>, crc_ccitt(<< 3, 0, 0, 0 >>))
         [] OTHER -> << OPCODE, START_BANK >> \o Pack32(Len(d)) \o SubSeq(d, 1, 3)

RECURSIVE PipeBanksStream(_, _)
PipeBanksStream(bs, n) ==
    IF n = 0 THEN << >>
    ELSE PipeBanksStream(bs, n - 1) \o PipeBankStream(bs[n], n)

PipeStream(sc) ==
    PipeBanksStream(sc.banks, Len(sc.banks)) \o PipeTailStream(sc.tail, Len(sc.banks) + 1)

RECURSIVE PipeBankSeqs(_)
PipeBankSeqs(n) ==
    IF n = 0 THEN { << >> }
    ELSE { Append(bs, b) : bs \in PipeBankSeqs(n - 1), b \in PipeIds }

PipeScripts ==
    { [banks |-> bs, tail |-> t] :
        bs \in UNION { PipeBankSeqs(n) : n \in 0..MaxPipeBanks }, t \in PipeTails }

\* the errors of the Block Reader and of the Bank Assembler
IntegrityErrors == {"ShortBlock", "CrcMismatch", "BankCrcMismatch", "BankTooShort"}

\* bankassembler.py line 44: next(self._blocks) raises an error of the Block
\* Reader, which _fill, the read in progress and __iter__ let through
PipeFillRaises ==
    /\ NeedsByte /\ rem = 0 /\ ~eof /\ feed.rest = << >>
    /\ script.tail \in {"ShortBlock", "CrcMismatch"}
    /\ pc' = "done" /\ outcome' = script.tail
    /\ UNCHANGED << acc, seg_len, started, bank_buf, bank, nYielded, ghostVars,
                    rem, eof, feed >>

\* bankassembler.py lines 46-49: next(self._blocks) raises StopIteration
PipeEofReturn ==
    /\ script.tail \notin {"ShortBlock", "CrcMismatch"}
    /\ EofReturn

\* eventassembler.py line 39: the for loop has the Bank the Bank Assembler
\* yielded and runs its body
PipeTake ==
    /\ pc = "yield" /\ Len(seen) < nYielded
    /\ EvTake(bank[1])

\* eventassembler.py line 39: the for loop asks for the next Bank
PipeResume ==
    /\ evPc = "loop" /\ Len(seen) = nYielded
    /\ ResumeBank

\* eventassembler.py line 39: the Bank Assembler has returned
PipeEnd ==
    /\ pc = "done" /\ outcome = "end"
    /\ EvEnd

\* a variant that ends the Event sequence when the Bank Assembler raises
PipeRaiseEndsQuietly ==
    /\ pc = "done" /\ outcome \in IntegrityErrors
    /\ evPc = "loop"
    /\ evPc' = "done"
    /\ UNCHANGED << start_id, stop_id, keep_markers, in_event, banks, cur,
                    event, seen, emitted >>

\* eventassembler.py line 39: the Bank Assembler has raised; nothing in
\* _iter_events catches the error and the generator raises it
PipeRaise ==
    /\ pc = "done" /\ outcome \in IntegrityErrors
    /\ evPc = "loop"
    /\ evPc' = "raised"
    /\ UNCHANGED << start_id, stop_id, keep_markers, in_event, banks, cur,
                    event, seen, emitted >>

\* a variant in which the second Event Assembler goes on with the locals of
\* the first
RedecodeSharedLocals ==
    /\ evPc = "done" /\ script.tail \in {"end", "split"} /\ prior = << >>
    /\ prior' = << [emitted |-> emitted, evPc |-> evPc, outcome |-> outcome] >>
    /\ pc' = "scan" /\ acc' = << >> /\ seg_len' = 0
    /\ started' = FALSE /\ bank_buf' = << >> /\ bank' = << >>
    /\ outcome' = "running" /\ nYielded' = 0
    /\ rem' = 0 /\ eof' = FALSE
    /\ hist' = << >> /\ opened' = "none" /\ strays' = FALSE
    /\ feed' = [feed EXCEPT !.rest = PipeStream(script)]
    /\ evPc' = "loop" /\ cur' = << >> /\ event' = << >>
    /\ seen' = << >> /\ emitted' = << >>
    /\ UNCHANGED << start_id, stop_id, keep_markers, in_event, banks, script >>

\* a well-formed stream is decoded once more by a fresh _ByteStream, Bank
\* Assembler (bankassembler.py 89-96) and Event Assembler (eventassembler.py
\* 21-37) with the same start_id, stop_id and keep_markers
Redecode ==
    /\ evPc = "done" /\ script.tail \in {"end", "split"} /\ prior = << >>
    /\ prior' = << [emitted |-> emitted, evPc |-> evPc, outcome |-> outcome] >>
    /\ pc' = "scan" /\ acc' = << >> /\ seg_len' = 0
    /\ started' = FALSE /\ bank_buf' = << >> /\ bank' = << >>
    /\ outcome' = "running" /\ nYielded' = 0
    /\ rem' = 0 /\ eof' = FALSE
    /\ hist' = << >> /\ opened' = "none" /\ strays' = FALSE
    /\ feed' = [feed EXCEPT !.rest = PipeStream(script)]
    /\ in_event' = FALSE /\ banks' = << >>
    /\ evPc' = "loop" /\ cur' = << >> /\ event' = << >>
    /\ seen' = << >> /\ emitted' = << >>
    /\ UNCHANGED << start_id, stop_id, keep_markers, script >>

asmAll == << pc, acc, seg_len, started, bank_buf, bank, outcome, rem, eof,
             feed, nYielded, hist, opened, strays >>

InitPipe ==
    /\ InitAsm
    /\ NewReader(<< >>)
    /\ NoCrcRun
    /\ \E k \in BOOLEAN : NewEventAssembler(1, 2, k)
    /\ NoRecipe
    /\ script \in PipeScripts /\ prior = << >>
    /\ feed = [scripted |-> TRUE, rest |-> PipeStream(script),
               s1 |-> << >>, s2 |-> << >>, empty |-> 0]

NextPipe ==
    \/ ReadScan /\ UNCHANGED outsideAsm
    \/ ReadVerb /\ UNCHANGED outsideAsm
    \/ ReadField /\ UNCHANGED outsideAsm
    \/ SkipDone /\ UNCHANGED outsideAsm
    \/ SegLenDone /\ UNCHANGED outsideAsm
    \/ SegDone /\ UNCHANGED outsideAsm
    \/ EndBankCheck /\ UNCHANGED outsideAsm
    \/ PipeEofReturn /\ UNCHANGED outsideAsm
    \/ PipeFillRaises /\ UNCHANGED outsideAsm
    \/ PipeTake /\ UNCHANGED << asmAll, brVars, crcVars, pipeVars, rcpVars >>
    \/ PipeResume /\ UNCHANGED outsideAsm
    \/ EvResume /\ UNCHANGED << asmAll, brVars, crcVars, pipeVars, rcpVars >>
    \/ PipeEnd /\ UNCHANGED << asmAll, brVars, crcVars, pipeVars, rcpVars >>
    \/ PipeRaise /\ UNCHANGED << asmAll, brVars, crcVars, pipeVars, rcpVars >>
    \/ Redecode /\ UNCHANGED << brVars, crcVars, rcpVars >>

SpecPipe == InitPipe /\ [][NextPipe]_vars

(***************************************************************************)
(* The Bank Assembler over any sequence of block payloads whose            *)
(* concatenation is the written stream: the payloads may end anywhere and  *)
(* up to MaxEmpty of them may be empty.  The banks yielded are taken by    *)
(* the for loop of the Event Assembler, which records them in seen.        *)
(***************************************************************************)
MaxEmpty == 1

\* bankassembler.py lines 44-45 and 53-56: read1 fetches a payload that is
\* empty; _eof is not set and self._buf[self._i] raises IndexError
EmptyPayloadRead1 ==
    /\ pc \in {"scan", "verb"} /\ rem = 0 /\ ~eof
    /\ feed.empty < MaxEmpty
    /\ feed' = [feed EXCEPT !.empty = @ + 1]
    /\ pc' = "done" /\ outcome' = "IndexError"
    /\ UNCHANGED << acc, seg_len, started, bank_buf, bank, nYielded, ghostVars,
                    rem, eof >>

\* bankassembler.py lines 44-45 and 61-68: read_exact fetches a payload that
\* is empty, copies no byte from it and goes round its loop again
EmptyPayloadReadExact ==
    /\ pc \notin {"scan", "verb"} /\ NeedsByte /\ rem = 0 /\ ~eof
    /\ feed.empty < MaxEmpty
    /\ feed' = [feed EXCEPT !.empty = @ + 1]
    /\ UNCHANGED << pc, acc, seg_len, started, bank_buf, bank, outcome,
                    nYielded, ghostVars, rem, eof >>

\* the streams without an error of the Block Reader
CutScripts == {sc \in PipeScripts : sc.tail \notin {"ShortBlock", "CrcMismatch"}}

InitCut ==
    /\ InitAsm
    /\ NewReader(<< >>)
    /\ NoCrcRun
    /\ NewEventAssembler(1, 2, FALSE)
    /\ NoRecipe
    /\ script \in CutScripts /\ prior = << >>
    /\ feed = [scripted |-> TRUE, rest |-> PipeStream(script),
               s1 |-> << >>, s2 |-> << >>, empty |-> 0]

NextCut ==
    \/ ReadScan /\ UNCHANGED outsideAsm
    \/ ReadVerb /\ UNCHANGED outsideAsm
    \/ ReadField /\ UNCHANGED outsideAsm
    \/ SkipDone /\ UNCHANGED outsideAsm
    \/ SegLenDone /\ UNCHANGED outsideAsm
    \/ SegDone /\ UNCHANGED outsideAsm
    \/ EndBankCheck /\ UNCHANGED outsideAsm
    \/ EofReturn /\ UNCHANGED outsideAsm
    \/ EmptyPayloadRead1 /\ UNCHANGED outsideAsm
    \/ EmptyPayloadReadExact /\ UNCHANGED outsideAsm
    \/ PipeResume /\ UNCHANGED outsideAsm
    \/ PipeTake /\ UNCHANGED << asmAll, brVars, crcVars, pipeVars, rcpVars >>
    \/ EvResume /\ UNCHANGED << asmAll, brVars, crcVars, pipeVars, rcpVars >>
    \/ PipeEnd /\ UNCHANGED << asmAll, brVars, crcVars, pipeVars, rcpVars >>

SpecCut == InitCut /\ [][NextCut]_vars

(***************************************************************************)
(* The two assemblers run to their end by a consumer that keeps asking for *)
(* the next Event, over finite streams cut into finite payloads.           *)
(***************************************************************************)
MaxRunBanks == 2

\* what follows the banks of a stream: nothing, or START_BLOCK with a block
\* number the stream ends in
RunSuffixes == { << >>, << OPCODE, START_BLOCK, 0, 0 >> }

RunScripts == {sc \in CutScripts : Len(sc.banks) <= MaxRunBanks}

\* eventassembler.py line 39: the Bank Assembler has raised an error of any
\* kind; nothing in _iter_events catches it and the generator raises it
PipeError ==
    /\ pc = "done" /\ outcome # "end"
    /\ evPc = "loop"
    /\ evPc' = "raised"
    /\ UNCHANGED << start_id, stop_id, keep_markers, in_event, banks, cur,
                    event, seen, emitted >>

InitRun ==
    /\ InitAsm
    /\ NewReader(<< >>)
    /\ NoCrcRun
    /\ NewEventAssembler(1, 2, FALSE)
    /\ NoRecipe
    /\ script \in RunScripts /\ prior = << >>
    /\ \E x \in RunSuffixes :
         feed = [scripted |-> TRUE, rest |-> PipeStream(script) \o x,
                 s1 |-> << >>, s2 |-> << >>, empty |-> 0]

\* the steps other than the check of the trailer
RunStep ==
    \/ ReadScan /\ UNCHANGED outsideAsm
    \/ ReadVerb /\ UNCHANGED outsideAsm
    \/ ReadField /\ UNCHANGED outsideAsm
    \/ SkipDone /\ UNCHANGED outsideAsm
    \/ SegLenDone /\ UNCHANGED outsideAsm
    \/ SegDone /\ UNCHANGED outsideAsm
    \/ EofReturn /\ UNCHANGED outsideAsm
    \/ EofBlkno /\ UNCHANGED outsideAsm
    \/ EmptyPayloadRead1 /\ UNCHANGED outsideAsm
    \/ EmptyPayloadReadExact /\ UNCHANGED outsideAsm
    \/ PipeResume /\ UNCHANGED outsideAsm
    \/ PipeTake /\ UNCHANGED << asmAll, brVars, crcVars, pipeVars, rcpVars >>
    \/ EvResume /\ UNCHANGED << asmAll, brVars, crcVars, pipeVars, rcpVars >>
    \/ PipeEnd /\ UNCHANGED << asmAll, brVars, crcVars, pipeVars, rcpVars >>
    \/ PipeError /\ UNCHANGED << asmAll, brVars, crcVars, pipeVars, rcpVars >>

NextRun ==
    \/ RunStep
    \/ EndBankCheck /\ UNCHANGED outsideAsm

SpecRun == InitRun /\ [][NextRun]_vars

\* EndBankCheck by its guard and by where it sends the generator: it is
\* enabled whenever the trailer is complete, whatever the CRC
TrailerChecked ==
    /\ pc = "crc" /\ Len(acc) = Want
    /\ pc' \in {"yield", "done"}

\* the interpreter runs the next step of the for loop that consumes the
\* Events, and of the generators it drives, for as long as there is one
FairSpecRun == SpecRun /\ WF_vars(RunStep) /\ WF_pc(TrailerChecked)

(***************************************************************************)
(* The assembler over streams that begin with one or more OPCODE bytes and *)
(* a verb, followed by what follows START_BANK in a well-formed bank.      *)
(***************************************************************************)
MaxOpcodes == 3

RECURSIVE Opcodes(_)
Opcodes(n) == IF n = 0 THEN << >> ELSE Append(Opcodes(n - 1), OPCODE)

RepeatedOpcodeStream(n, v, d) ==
    Opcodes(n) \o << v >> \o Pack32(Len(d)) \o d
    \o << OPCODE, END_BANK >> \o Pack32(crc_ccitt(d))

\* feed.s1 keeps the stream as written
InitRepeated ==
    /\ InitAsm
    /\ \E n \in 1..MaxOpcodes : \E v \in BlockVerbs \cup BankVerbs :
       \E d \in BankData(9) :
         feed = [scripted |-> TRUE, rest |-> RepeatedOpcodeStream(n, v, d),
                 s1 |-> RepeatedOpcodeStream(n, v, d), s2 |-> << >>,
                 empty |-> 0]
    /\ NewReader(<< >>)
    /\ NoCrcRun
    /\ NewEventAssembler(0, 0, FALSE)
    /\ NoScript
    /\ NoRecipe

SpecRepeated == InitRepeated /\ [][NextScript]_vars

(***************************************************************************)
(* The recipe interpreter (recipe_reader.py): interpret_recipe walks the   *)
(* operations of a recipe over the payload of a bank.                      *)
(*                                                                         *)
(* A value of the result mapping is the record [loop, elems]: elems holds  *)
(* one element per call of _unpack_values that contributed to it (exactly  *)
(* one when the operation has no loop), and an element is [single, vals]:  *)
(* a single value (vals[0], count <= 1) or the list vals (count > 1).      *)
(* Expressions are the count literal (not a string, line 85), "${key}"     *)
(* (lines 31-33), "key >= n" and "key[var] == n" with var the loop        *)
(* variable and the assignment expression "(key := n)" (evaluated by eval, *)
(* line 34, with the context as its locals).  What an expression evaluates to is [e, int, n]: the *)
(* exception raised (e, "none" when none), an integer n (a bool is the     *)
(* integer 0 or 1), or a list of length n.  The float types r4 and r8 are  *)
(* not used by the recipes of the model.                                   *)
(***************************************************************************)
MaxHalves == 3

\* lines 19-25
SIZEOF(func) ==
    CASE func = "i4" -> 4
      [] func = "i2asi4" -> 2
      [] func = "i4asui2" -> 2

\* lines 11-17 and 46: struct.unpack(fmt, chunk)[0] for "<i", "<h" and "<H"
UnpackValue(func, chunk) ==
    CASE func = "i4" ->
           chunk[1] + 256 * chunk[2] + 65536 * chunk[3]
           + 16777216 * (IF chunk[4] >= 128 THEN chunk[4] - 256 ELSE chunk[4])
      [] func = "i2asi4" ->
           chunk[1] + 256 * (IF chunk[2] >= 128 THEN chunk[2] - 256 ELSE chunk[2])
      [] func = "i4asui2" -> chunk[1] + 256 * chunk[2]

\* line 43: data[offset:offset+size], a slice that stops at the end of data
Slice(d, from, to) ==
    SubSeq(d, from + 1, IF to < Len(d) THEN to ELSE Len(d))

RECURSIVE unpack_padded(_, _, _, _, _)
\* a variant of the loop of lines 42-52 that completes a chunk that is too
\* short with zero bytes
unpack_padded(d, off, func, left, values) ==
    IF left <= 0
    THEN [ok |-> TRUE, values |-> values, offset |-> off]
    ELSE LET chunk == Slice(d, off, off + SIZEOF(func))
             pad == [j \in 1..SIZEOF(func) |->
                        IF j <= Len(chunk) THEN chunk[j] ELSE 0]
         IN unpack_padded(d, off + SIZEOF(func), func, left - 1,
                          Append(values, UnpackValue(func, pad)))

RECURSIVE unpack_loop(_, _, _, _, _)
\* lines 42-53: the for loop with left iterations to go; ok is FALSE when
\* line 45 raises
unpack_loop(d, off, func, left, values) ==
    IF left <= 0
    THEN [ok |-> TRUE, values |-> values, offset |-> off]
    ELSE LET chunk == Slice(d, off, off + SIZEOF(func))
         IN IF Len(chunk) < SIZEOF(func)
            THEN [ok |-> FALSE, values |-> values, offset |-> off]
            ELSE unpack_loop(d, off + SIZEOF(func), func, left - 1,
                             Append(values, UnpackValue(func, chunk)))

\* a variant of _unpack_values that fills what is missing with zeros
unpack_values_padded(d, off, func, count) ==
    unpack_padded(d, off, func, count, << >>)

\* lines 37-53
unpack_values(d, off, func, count) == unpack_loop(d, off, func, count, << >>)

NoExpr == [k |-> "none", key |-> "", n |-> 0]
Lit(n) == [k |-> "lit", key |-> "", n |-> n]
Ref(key) == [k |-> "ref", key |-> key, n |-> 0]
IdxEq(key, n) == [k |-> "idx", key |-> key, n |-> n]
Ge(key, n) == [k |-> "ge", key |-> key, n |-> n]
Set(key, n) == [k |-> "set", key |-> key, n |-> n]

PyInt(n) == [e |-> "none", int |-> TRUE, n |-> n]
PyList(len) == [e |-> "none", int |-> FALSE, n |-> len]
PyRaise(x) == [e |-> x, int |-> FALSE, n |-> 0]

\* a stored value as an expression sees it
AsPy(v) ==
    IF v.loop THEN PyList(Len(v.elems))
    ELSE IF v.elems[1].single THEN PyInt(v.elems[1].vals[1])
    ELSE PyList(Len(v.elems[1].vals))

\* the items of a stored list, each as [single, vals]
ItemsOf(v) ==
    IF v.loop THEN v.elems
    ELSE [j \in 1..Len(v.elems[1].vals) |->
             [single |-> TRUE, vals |-> << v.elems[1].vals[j] >>]]

\* the context of line 81 ({**result, loop_var: i}), or result itself when
\* var is ""
Ctx(map, var, i) == [map |-> map, var |-> var, i |-> i]

\* lines 28-34
eval_expr(expr, ctx) ==
    CASE expr.k \in {"lit", "set"} -> PyInt(expr.n)
      [] expr.k = "ref" ->
           IF ctx.var # "" /\ expr.key = ctx.var THEN PyInt(ctx.i)
           ELSE IF expr.key \in DOMAIN ctx.map THEN AsPy(ctx.map[expr.key])
           ELSE PyRaise("KeyError")
      [] expr.k = "ge" ->
           IF ctx.var # "" /\ expr.key = ctx.var
           THEN PyInt(IF ctx.i >= expr.n THEN 1 ELSE 0)
           ELSE IF expr.key \notin DOMAIN ctx.map THEN PyRaise("NameError")
           ELSE LET v == AsPy(ctx.map[expr.key])
                IN IF ~v.int THEN PyRaise("TypeError")
                   ELSE PyInt(IF v.n >= expr.n THEN 1 ELSE 0)
      [] expr.k = "idx" ->
           IF ctx.var = "" THEN PyRaise("NameError")
           ELSE IF expr.key = ctx.var THEN PyRaise("TypeError")
           ELSE IF expr.key \notin DOMAIN ctx.map THEN PyRaise("NameError")
           ELSE LET v == ctx.map[expr.key]
                IN IF AsPy(v).int THEN PyRaise("TypeError")
                   ELSE IF ctx.i >= Len(ItemsOf(v)) THEN PyRaise("IndexError")
                   ELSE LET it == ItemsOf(v)[ctx.i + 1]
                        IN PyInt(IF it.single /\ it.vals[1] = expr.n
                                 THEN 1 ELSE 0)

\* line 34: the mapping of the context after eval(expr, {}, ctx), which
\* binds the name of an assignment expression in ctx
eval_effect(expr, map) ==
    IF expr.k = "set"
    THEN [g \in (DOMAIN map) \cup {expr.key} |->
             IF g = expr.key
             THEN [loop |-> FALSE,
                   elems |-> << [single |-> TRUE, vals |-> << expr.n >>] >>]
             ELSE map[g]]
    ELSE map

\* `not value` is false
Truthy(v) == v.n # 0

\* lines 85-87 and 91-93: the count is evaluated, the values are unpacked
\* and the element to store or to append is chosen; e is the exception
\* raised ("none" when none)
Extraction(op, ctx, d, off) ==
    LET c == eval_expr(op.count, ctx)
        u == unpack_values(d, off, op.func, c.n)
        none == [single |-> FALSE, vals |-> << >>]
    IN IF c.e # "none"
       THEN [e |-> c.e, called |-> FALSE, count |-> 0, values |-> << >>,
             offset |-> off, elem |-> none]
       ELSE IF ~c.int
       THEN [e |-> "TypeError", called |-> FALSE, count |-> 0,
             values |-> << >>, offset |-> off, elem |-> none]
       ELSE IF ~u.ok
       THEN [e |-> "ValueError", called |-> TRUE, count |-> c.n,
             values |-> << >>, offset |-> off, elem |-> none]
       ELSE IF c.n > 1
       THEN [e |-> "none", called |-> TRUE, count |-> c.n,
             values |-> << u.values >>, offset |-> u.offset,
             elem |-> [single |-> FALSE, vals |-> u.values]]
       ELSE IF u.values = << >>
       THEN [e |-> "IndexError", called |-> TRUE, count |-> c.n,
             values |-> << u.values >>, offset |-> u.offset, elem |-> none]
       ELSE [e |-> "none", called |-> TRUE, count |-> c.n,
             values |-> << u.values >>, offset |-> u.offset,
             elem |-> [single |-> TRUE, vals |-> << u.values[1] >>]]

\* result[field] = v
Store(map, field, v) ==
    [g \in (DOMAIN map) \cup {field} |-> IF g = field THEN v ELSE map[g]]

\* the record of one call of _unpack_values
Call(x, op, off, inLoop) ==
    [op |-> opIdx, at |-> off, to |-> x.offset, count |-> x.count,
     width |-> SIZEOF(op.func), values |-> x.values, loop |-> inLoop,
     i |-> IF inLoop THEN loop_i ELSE 0]

NoLoop == [var |-> "", bound |-> NoExpr]
Unpack(func, field, count, cond, loop, guard) ==
    [op |-> "unpack", func |-> func, field |-> field, count |-> count,
     cond |-> cond, loop |-> loop, guard |-> guard]

\* the operations the recipes of the model are made of
OpN == Unpack("i2asi4", "n", Lit(1), NoExpr, NoLoop, NoExpr)
OpA == Unpack("i4asui2", "a", Ref("n"), NoExpr, NoLoop, NoExpr)
OpC == Unpack("i4", "c", Lit(1), Ref("n"), NoLoop, NoExpr)
OpF == Unpack("i2asi4", "f", Lit(1), NoExpr,
              [var |-> "i", bound |-> Lit(2)], NoExpr)
OpG == Unpack("i4asui2", "g", Lit(1), NoExpr,
              [var |-> "i", bound |-> Lit(2)], IdxEq("f", 1))
OpL == Unpack("i2asi4", "a", Ref("i"), NoExpr,
              [var |-> "i", bound |-> Ref("n")], Ref("i"))
OpP == Unpack("i4asui2", "p", Ref("n"), NoExpr,
              [var |-> "i", bound |-> Lit(1)], NoExpr)
OpX == [op |-> "comment", func |-> "", field |-> "", count |-> NoExpr,
        cond |-> NoExpr, loop |-> NoLoop, guard |-> NoExpr]
OpPool == {OpN, OpA, OpC, OpF, OpG, OpL, OpP, OpX}

\* the recipes: at most two operations
Recipes ==
    {<< >>} \cup {<< p >> : p \in OpPool}
            \cup {<< p, q >> : p \in OpPool, q \in OpPool}

\* the payloads: up to MaxHalves 16-bit words and maybe one byte more
HalfWords == {<< 0, 0 >>, << 1, 0 >>, << 2, 0 >>, << 255, 255 >>}
RECURSIVE WordsOfLen(_)
WordsOfLen(n) ==
    IF n = 0 THEN {<< >>}
    ELSE {w \o h : w \in WordsOfLen(n - 1), h \in HalfWords}
Payloads ==
    UNION {WordsOfLen(n) \cup {w \o << 1 >> : w \in WordsOfLen(n)} :
           n \in 0..MaxHalves}

\* the recipe of a bank with a version-gated trailing field: the bank
\* version, a 32-bit count n, n values and the field of version 2
OpV == Unpack("i4", "bankversion", Lit(1), NoExpr, NoLoop, NoExpr)
OpN4 == Unpack("i4", "n", Lit(1), NoExpr, NoLoop, NoExpr)
OpT == Unpack("i4", "t", Lit(1), Ge("bankversion", 2), NoLoop, NoExpr)
RoundTripRecipe == << OpV, OpN4, OpA, OpT >>

\* struct.pack("<i", x) for x >= 0 and struct.pack("<H", x)
EncodeI4(x) ==
    << x % 256, (x \div 256) % 256, (x \div 65536) % 256,
       (x \div 16777216) % 256 >>
EncodeU2(x) == << x % 256, (x \div 256) % 256 >>

RECURSIVE EncodeAllU2(_)
EncodeAllU2(vs) ==
    IF vs = << >> THEN << >> ELSE EncodeU2(Head(vs)) \o EncodeAllU2(Tail(vs))

\* the values written into a bank of that recipe: its version, up to
\* MaxRoundTrip values and the field of version 2
MaxRoundTrip == 2
RECURSIVE ValuesOfLen(_)
ValuesOfLen(n) ==
    IF n = 0 THEN {<< >>}
    ELSE {Append(vs, x) : vs \in ValuesOfLen(n - 1), x \in {1, 65535}}
RoundTripInputs ==
    {[version |-> v, vals |-> vs, t |-> 3] :
        v \in {1, 2}, vs \in UNION {ValuesOfLen(n) : n \in 0..MaxRoundTrip}}

\* the little-endian encoding of the values, field after field, the gated
\* field only when the version has it
Encode(w) ==
    EncodeI4(w.version) \o EncodeI4(Len(w.vals)) \o EncodeAllU2(w.vals)
    \o (IF w.version >= 2 THEN EncodeI4(w.t) ELSE << >>)

Op == ops[opIdx]
AtOp == rcpPc = "op" /\ opIdx <= Len(ops)
IsUnpack == AtOp /\ Op.op = "unpack"
HasCond == Op.cond.k # "none"
CondValue == eval_expr(Op.cond, Ctx(result, "", 0))
CondPasses == IF HasCond THEN CondValue.e = "none" /\ Truthy(CondValue) ELSE TRUE
\* result after the evaluation of the condition (line 71)
AfterCond == eval_effect(Op.cond, result)
HasLoop == Op.loop.var # ""
InLoop == rcpPc = "iter" /\ loop_i < bound
LoopCtx == Ctx(result, Op.loop.var, loop_i)
\* ctx after the evaluation of the guard (line 83)
AfterGuardCtx == Ctx(eval_effect(Op.guard, result), Op.loop.var, loop_i)
HasGuard == Op.guard.k # "none"
GuardValue == eval_expr(Op.guard, LoopCtx)
GuardPasses ==
    IF HasGuard THEN GuardValue.e = "none" /\ Truthy(GuardValue) ELSE TRUE

\* interpret_recipe raises x with the result mapping r
RecipeRaisesWith(x, r) ==
    /\ rcpPc' = "raised" /\ exc' = x
    /\ result' = r
    /\ UNCHANGED << offset, opIdx, loop_i, bound, collected, returned, stored >>

\* interpret_recipe raises x
RecipeRaises(x) == RecipeRaisesWith(x, result)

\* lines 62-63: an operation that is not an unpack
OpNotUnpack ==
    /\ AtOp /\ Op.op # "unpack"
    /\ opIdx' = opIdx + 1
    /\ UNCHANGED << data, ops, offset, result, rcpPc, loop_i, bound, collected,
                    exc, returned, extracted, stored >>

\* a variant that stores an empty list for the operation it skips
OpCondFalseStoresEmpty ==
    /\ IsUnpack /\ HasCond
    /\ CondValue.e = "none" /\ ~Truthy(CondValue)
    /\ opIdx' = opIdx + 1
    /\ result' = Store(result, Op.field, [loop |-> TRUE, elems |-> << >>])
    /\ UNCHANGED << data, ops, offset, rcpPc, loop_i, bound, collected,
                    exc, returned, extracted, stored >>

\* lines 70-72: the condition is false and the operation is skipped
OpCondFalse ==
    /\ IsUnpack /\ HasCond
    /\ CondValue.e = "none" /\ ~Truthy(CondValue)
    /\ opIdx' = opIdx + 1
    /\ result' = AfterCond
    /\ UNCHANGED << data, ops, offset, rcpPc, loop_i, bound, collected,
                    exc, returned, extracted, stored >>

\* line 71: the evaluation of the condition raises
OpCondRaises ==
    /\ IsUnpack /\ HasCond
    /\ CondValue.e # "none"
    /\ RecipeRaises(CondValue.e)
    /\ UNCHANGED << data, ops, extracted >>

\* lines 89-93: an operation without a loop
OpExtract ==
    /\ IsUnpack /\ CondPasses /\ ~HasLoop
    /\ LET x == Extraction(Op, Ctx(AfterCond, "", 0), data, offset)
           r == eval_effect(Op.count, AfterCond)
       IN /\ extracted' = IF x.called
                          THEN Append(extracted, Call(x, Op, offset, FALSE))
                          ELSE extracted
          /\ IF x.e # "none"
             THEN RecipeRaisesWith(x.e, r)
             ELSE /\ offset' = x.offset
                  /\ result' = Store(r, Op.field,
                                     [loop |-> FALSE, elems |-> << x.elem >>])
                  /\ opIdx' = opIdx + 1
                  /\ stored' = Append(stored, opIdx)
                  /\ UNCHANGED << rcpPc, loop_i, bound, collected, exc,
                                  returned >>
    /\ UNCHANGED << data, ops >>

\* lines 75-80: the bound is evaluated and the loop begins
LoopStart ==
    /\ IsUnpack /\ CondPasses /\ HasLoop
    /\ LET b == eval_expr(Op.loop.bound, Ctx(AfterCond, "", 0))
           r == eval_effect(Op.loop.bound, AfterCond)
       IN IF b.e # "none" \/ ~b.int
          THEN RecipeRaisesWith(IF b.e # "none" THEN b.e ELSE "TypeError", r)
          ELSE /\ bound' = b.n /\ loop_i' = 0 /\ collected' = << >>
               /\ rcpPc' = "iter"
               /\ result' = r
               /\ UNCHANGED << offset, opIdx, exc, returned, stored >>
    /\ UNCHANGED << data, ops, extracted >>

\* a variant in which a skipped iteration consumes the bytes of one value
LoopGuardFalseConsumes ==
    /\ InLoop /\ HasGuard
    /\ GuardValue.e = "none" /\ ~Truthy(GuardValue)
    /\ loop_i' = loop_i + 1
    /\ offset' = offset + SIZEOF(Op.func)
    /\ UNCHANGED << data, ops, result, opIdx, rcpPc, bound, collected,
                    exc, returned, extracted, stored >>

\* lines 82-84: the guard is false and the iteration is skipped
LoopGuardFalse ==
    /\ InLoop /\ HasGuard
    /\ GuardValue.e = "none" /\ ~Truthy(GuardValue)
    /\ loop_i' = loop_i + 1
    /\ UNCHANGED << data, ops, offset, result, opIdx, rcpPc, bound, collected,
                    exc, returned, extracted, stored >>

\* line 83: the evaluation of the guard raises
LoopGuardRaises ==
    /\ InLoop /\ HasGuard
    /\ GuardValue.e # "none"
    /\ RecipeRaises(GuardValue.e)
    /\ UNCHANGED << data, ops, extracted >>

\* lines 85-87: an iteration that extracts
LoopExtract ==
    /\ InLoop /\ GuardPasses
    /\ LET x == Extraction(Op, AfterGuardCtx, data, offset)
       IN /\ extracted' = IF x.called
                          THEN Append(extracted, Call(x, Op, offset, TRUE))
                          ELSE extracted
          /\ IF x.e # "none"
             THEN RecipeRaises(x.e)
             ELSE /\ offset' = x.offset
                  /\ collected' = Append(collected, x.elem)
                  /\ loop_i' = loop_i + 1
                  /\ UNCHANGED << result, opIdx, rcpPc, bound, exc, returned,
                                  stored >>
    /\ UNCHANGED << data, ops >>

\* line 88: the loop is over and the collected list is stored
LoopStore ==
    /\ rcpPc = "iter" /\ loop_i >= bound
    /\ result' = Store(result, Op.field, [loop |-> TRUE, elems |-> collected])
    /\ opIdx' = opIdx + 1
    /\ rcpPc' = "op"
    /\ stored' = Append(stored, opIdx)
    /\ UNCHANGED << data, ops, offset, loop_i, bound, collected, exc, returned,
                    extracted >>

\* line 95
RecipeReturn ==
    /\ rcpPc = "op" /\ opIdx > Len(ops)
    /\ rcpPc' = "returned"
    /\ returned' = << result >>
    /\ UNCHANGED << data, ops, offset, result, opIdx, loop_i, bound, collected,
                    exc, extracted, stored >>

outsideRcp == << asmAll, brVars, crcVars, evVars, pipeVars >>

InitRecipe ==
    /\ InitAsm
    /\ feed = [scripted |-> FALSE, rest |-> << >>, s1 |-> << >>, s2 |-> << >>,
               empty |-> 0]
    /\ NewReader(<< >>)
    /\ NoCrcRun
    /\ NewEventAssembler(0, 0, FALSE)
    /\ NoScript
    /\ \/ \E d \in Payloads : \E r \in Recipes : CallRecipe(d, r)
       \/ \E w \in RoundTripInputs : CallRecipe(Encode(w), RoundTripRecipe)

NextRecipe ==
    \/ OpNotUnpack /\ UNCHANGED outsideRcp
    \/ OpCondFalse /\ UNCHANGED outsideRcp
    \/ OpCondRaises /\ UNCHANGED outsideRcp
    \/ OpExtract /\ UNCHANGED outsideRcp
    \/ LoopStart /\ UNCHANGED outsideRcp
    \/ LoopGuardFalse /\ UNCHANGED outsideRcp
    \/ LoopGuardRaises /\ UNCHANGED outsideRcp
    \/ LoopExtract /\ UNCHANGED outsideRcp
    \/ LoopStore /\ UNCHANGED outsideRcp
    \/ RecipeReturn /\ UNCHANGED outsideRcp

SpecRecipe == InitRecipe /\ [][NextRecipe]_vars

\* operations whose expressions are assignment expressions: a condition
\* that is false, a condition that is true, a count, a loop bound and a
\* guard
OpCS == Unpack("i2asi4", "c", Lit(1), Set("z", 0), NoLoop, NoExpr)
OpCT == Unpack("i2asi4", "c", Lit(1), Set("n", 1), NoLoop, NoExpr)
OpAS == Unpack("i4asui2", "a", Set("n", 2), NoExpr, NoLoop, NoExpr)
OpBS == Unpack("i2asi4", "b", Lit(1), NoExpr,
               [var |-> "i", bound |-> Set("n", 1)], NoExpr)
OpGS == Unpack("i2asi4", "g", Lit(1), NoExpr,
               [var |-> "i", bound |-> Lit(2)], Set("n", 0))
EvalPool == OpPool \cup {OpCS, OpCT, OpAS, OpBS, OpGS}

\* the recipes with any expression eval accepts
EvalRecipes ==
    {<< >>} \cup {<< p >> : p \in EvalPool}
            \cup {<< p, q >> : p \in EvalPool, q \in EvalPool}

InitEval ==
    /\ InitAsm
    /\ feed = [scripted |-> FALSE, rest |-> << >>, s1 |-> << >>, s2 |-> << >>,
               empty |-> 0]
    /\ NewReader(<< >>)
    /\ NoCrcRun
    /\ NewEventAssembler(0, 0, FALSE)
    /\ NoScript
    /\ \E d \in Payloads : \E r \in EvalRecipes : CallRecipe(d, r)

SpecEval == InitEval /\ [][NextRecipe]_vars

TypeOKRecipe ==
    /\ \/ data \in Payloads /\ ops \in Recipes
       \/ ops = RoundTripRecipe /\ \E w \in RoundTripInputs : data = Encode(w)
    /\ offset \in 0..Len(data)
    /\ opIdx \in 1..(Len(ops) + 1)
    /\ rcpPc \in {"op", "iter", "returned", "raised"}
    /\ loop_i \in Nat
    /\ exc \in {"none", "ValueError", "IndexError", "KeyError", "NameError",
                "TypeError"}
    /\ (rcpPc = "raised") = (exc # "none")
    /\ (rcpPc = "returned") = (returned # << >>)
    /\ DOMAIN result \subseteq {"n", "a", "c", "f", "g", "p", "bankversion", "t"}

(***************************************************************************)
(* Properties of the Bank Assembler.                                       *)
(***************************************************************************)
\* the low 16 bits of the trailer held in acc
TrailerLow16 == acc[1] + 256 * acc[2]

\* the little-endian value of bytes i..i+3 of d
LittleEndianAt(d, i) ==
    d[i] + 256 * d[i + 1] + 65536 * d[i + 2] + 16777216 * d[i + 3]

\* the generator is at the end of an END_BANK trailer, about to check it
AtTrailerEnd == pc = "crc" /\ Len(acc) = 4

\* C1: no partial bank is yielded. Whenever the generator is at its yield,
\* the Bank came from an END_BANK whose 4-byte trailer has in its low 16 bits
\* the CRC-CCITT of the accumulated buffer, and the Bank's data is the
\* in-order concatenation of the segments appended since the most recent bank
\* start (START_BANK, or CONTINUE with no bank open).
C1_NoPartialBank ==
    pc = "yield" =>
        /\ Len(bank) = 1
        /\ Len(acc) = 4
        /\ TrailerLow16 = crc_ccitt(bank_buf)
        /\ bank_buf = hist
        /\ bank[1].data = hist

C1_Witness ==
    /\ pc = "yield" /\ Len(bank) = 1
    /\ Len(bank[1].data) = 9
    /\ opened = "START_BANK"

\* C2: at END_BANK, a trailer whose low 16 bits differ from the CRC-CCITT of
\* the accumulated buffer makes the assembler fail with the bank CRC mismatch
\* error; no Bank is yielded for that END_BANK, and after the error the
\* iteration takes no further step (so it yields no further Bank).
C2_CrcMismatchIsFatal ==
    /\ [][ (AtTrailerEnd /\ TrailerLow16 # crc_ccitt(bank_buf)) =>
             /\ pc' = "done"
             /\ outcome' = "BankCrcMismatch"
             /\ bank' = << >>
             /\ nYielded' = nYielded ]_vars
    /\ [][ outcome # "BankCrcMismatch" ]_vars

C2_Witness ==
    /\ outcome = "BankCrcMismatch" /\ pc = "done"
    /\ Len(bank_buf) >= 8
    /\ acc[1] = crc_ccitt(bank_buf) % 256
    /\ nYielded = 1

\* C3: every yielded Bank has at least 8 bytes of data, bank_id is the
\* little-endian u32 of data[0:4], bank_version the little-endian u32 of
\* data[4:8], and data holds the segment bytes alone: the 4 bytes of the
\* trailer after END_BANK (still in acc) are no part of it.
C3_BankHeader ==
    pc = "yield" =>
        LET b == bank[1]
        IN /\ Len(b.data) >= 8
           /\ b.bank_id = LittleEndianAt(b.data, 1)
           /\ b.bank_version = LittleEndianAt(b.data, 5)
           /\ Len(acc) = 4
           /\ b.data = hist

C3_Witness ==
    /\ pc = "yield" /\ Len(bank) = 1
    /\ bank[1].bank_id = 256 + OPCODE
    /\ bank[1].bank_version = 2

\* C4: at END_BANK the CRC is checked first and the length second: with a
\* buffer shorter than 8 bytes the bank-too-short error is raised when the CRC
\* matches the trailer and the CRC mismatch error when it does not, and in
\* neither case is a Bank yielded.
C4_CrcBeforeLength ==
    [][ (AtTrailerEnd /\ Len(bank_buf) < 8) =>
          /\ pc' = "done"
          /\ outcome' = IF TrailerLow16 = crc_ccitt(bank_buf)
                        THEN "BankTooShort" ELSE "BankCrcMismatch"
          /\ bank' = << >>
          /\ nYielded' = nYielded ]_vars

C4_Witness ==
    /\ outcome = "BankTooShort" /\ pc = "done"
    /\ Len(bank_buf) = 5
    /\ TrailerLow16 = crc_ccitt(bank_buf)

\* C5: for the written stream START_BANK S1, TO_BE_CONTD and its 5 bytes,
\* CONTINUE S2, END_BANK with the CRC of S1 S2: the iteration ends normally
\* having yielded one Bank; the Bank is yielded when the whole stream is read,
\* its data is S1 followed by S2 and its id and version are read from that
\* concatenation (the trailer, the CRC of the concatenation, was accepted).
C5_TwoSegments ==
    /\ pc = "yield" =>
         /\ feed.rest = << >>
         /\ nYielded = 1
         /\ bank = << [bank_id |-> LittleEndianAt(feed.s1 \o feed.s2, 1),
                       bank_version |-> LittleEndianAt(feed.s1 \o feed.s2, 5),
                       data |-> feed.s1 \o feed.s2] >>
    /\ pc = "done" => (outcome = "end" /\ nYielded = 1)

C5_Witness ==
    /\ pc = "done" /\ outcome = "end" /\ nYielded = 1
    /\ Len(feed.s1) = 3 /\ Len(feed.s2) = 5

\* C6: self-synchronisation. A byte other than OPCODE read while the
\* assembler scans for the next OPCODE changes nothing but the stream
\* position: the scan goes on with the same bank state, no Bank is yielded
\* and no error is raised. (What follows is decided by the state and the
\* rest of the stream, so the Banks and the outcome are those of the stream
\* without that byte.)
C6_SelfSync ==
    [][ (\E b \in StrayBytes : ScanByte(b)) =>
          /\ pc' = "scan"
          /\ UNCHANGED << acc, seg_len, started, bank_buf, bank, outcome,
                          nYielded, hist, opened, eof >> ]_vars

C6_Witness ==
    /\ pc = "scan" /\ strays
    /\ started /\ Len(bank_buf) = 3
    /\ outcome = "running"

\* C7: a START_BANK read while a bank is open with bytes in it discards
\* those bytes: the buffer is empty after the verb, no Bank is yielded by it,
\* and the Bank the new START_BANK begins holds only the segments appended
\* after it.
C7_RestartDiscards ==
    /\ [][ (VerbByte(START_BANK) /\ started /\ bank_buf # << >>) =>
             /\ bank_buf' = << >>
             /\ started'
             /\ pc' = "seglen"
             /\ bank' = << >>
             /\ nYielded' = nYielded ]_vars
    /\ [](pc = "yield" /\ opened = "RESTART" => bank[1].data = hist)

C7_Witness ==
    /\ pc = "yield" /\ opened = "RESTART"

\* C8: a CONTINUE read while no bank is open leaves the assembler in the
\* state START_BANK would leave it in (same position, flag and buffer; what
\* follows is decided by that state and the rest of the stream); a CONTINUE
\* read while a bank is open keeps the buffer, and its segment is appended.
C8_ContinueAsStart ==
    /\ [][ (VerbByte(CONTINUE) /\ ~started) =>
             /\ pc' = VerbTarget(START_BANK)
             /\ started' = VerbStarted(START_BANK, started)
             /\ bank_buf' = VerbBuf(START_BANK, started, bank_buf)
             /\ acc' = << >>
             /\ UNCHANGED << seg_len, bank, outcome, nYielded >> ]_vars
    /\ [][ (VerbByte(CONTINUE) /\ started) =>
             /\ bank_buf' = bank_buf /\ started' /\ pc' = "seglen" ]_vars
    /\ [][ (pc = "seg" /\ pc' = "scan") => bank_buf' = bank_buf \o acc ]_vars

C8_Witness ==
    /\ pc = "yield" /\ opened = "CONTINUE"

\* C9: TO_BE_CONTD consumes exactly 5 bytes after the verb, whatever their
\* values, and leaves the bank-open flag and the buffer unchanged: the
\* generator reads one byte at a time until 5 are read, and goes back to
\* scanning exactly then.
C9_ToBeContdSkipsFive ==
    /\ [][ VerbByte(TO_BE_CONTD) =>
             /\ pc' = "skip" /\ acc' = << >>
             /\ UNCHANGED << started, bank_buf, bank, outcome, nYielded >> ]_vars
    /\ [][ (pc = "skip" /\ pc' # "done") =>
             /\ UNCHANGED << started, bank_buf, bank, outcome, nYielded >>
             /\ \/ Len(acc) < 5 /\ pc' = "skip" /\ Len(acc') = Len(acc) + 1
                \/ Len(acc) = 5 /\ pc' = "scan" /\ UNCHANGED << rem, eof, feed >> ]_vars

C9_Witness ==
    /\ pc = "skip" /\ Len(acc) = 5
    /\ started /\ Len(bank_buf) = 3

\* C10: START_BLOCK, END_BLOCK_LOGICAL, END_BLOCK_PHYSICAL, FILLER and the
\* unnamed verbs leave the bank-open flag and the buffer unchanged and raise
\* no error, whatever the state; START_BLOCK is followed by a 4-byte field
\* that is read and dropped (the loop going on when the stream ends in it),
\* the others send the generator straight back to scanning.
C10_BlockVerbsFrame ==
    /\ [][ (\E v \in BlockVerbs \cup OtherVerbs : VerbByte(v)) =>
             UNCHANGED << started, bank_buf, bank, outcome, nYielded >> ]_vars
    /\ [][ (\E v \in (BlockVerbs \cup OtherVerbs) \ {START_BLOCK} : VerbByte(v)) =>
             pc' = "scan" ]_vars
    /\ [][ VerbByte(START_BLOCK) => (pc' = "blkno" /\ acc' = << >>) ]_vars
    /\ [][ pc = "blkno" =>
             /\ UNCHANGED << started, bank_buf, bank, outcome, nYielded >>
             /\ \/ Len(acc) < 4 /\ pc' = "blkno" /\ Len(acc') = Len(acc) + 1
                \/ Len(acc) < 4 /\ pc' = "scan" /\ eof' /\ rem = 0
                \/ Len(acc) = 4 /\ pc' = "scan" /\ UNCHANGED << rem, eof, feed >> ]_vars

C10_Witness ==
    /\ pc = "blkno" /\ Len(acc) = 4
    /\ started /\ Len(bank_buf) = 3 /\ outcome = "running"

(***************************************************************************)
(* C11: when the stream ends before a verb byte, a segment length, the     *)
(* bytes of a segment, the five bytes after TO_BE_CONTD or the CRC trailer *)
(* are all there, the generator returns: it raises nothing, and the bank   *)
(* in progress is not yielded.                                             *)
(***************************************************************************)
StreamEndsAt(p) == pc = p /\ ~eof /\ eof'

C11_TruncationEndsQuietly ==
    /\ [][\A p \in {"verb", "seglen", "seg", "skip", "crc"} :
            StreamEndsAt(p) =>
                /\ pc' = "done" /\ outcome' = "end"
                /\ bank' = << >> /\ nYielded' = nYielded]_vars
    /\ [](outcome = "end" => pc = "done" /\ bank = << >>)

\* the stream ended inside a segment of an open bank that had bytes already
C11_Witness ==
    /\ pc = "done" /\ outcome = "end"
    /\ started /\ bank_buf # << >>
    /\ seg_len > Len(acc) /\ acc # << >>

(***************************************************************************)
(* Properties of the Block Reader.                                         *)
(***************************************************************************)
\* the step is a read of the open handle by the running generator
BlockRead == fh = "open" /\ gen \in {"start", "yield"} /\ fpos' # fpos

\* the bytes left in the file at the handle's position
LeftInFile == Len(file) - fpos

\* C12: a read that returns some bytes but fewer than BLOCK_LEN raises the
\* short-block error and yields nothing for the partial frame: the bytes are
\* not padded into a block, and the sequence does not end normally.
C12_ShortBlockRaises ==
    [][(BlockRead /\ 0 < LeftInFile /\ LeftInFile < BLOCK_LEN) =>
            /\ gen' = "raised" /\ err' = "ShortBlock"
            /\ blk' = << >> /\ outs' = outs]_vars

\* a frame was yielded and the rest of the file, one byte short of a frame
\* whose padding with a zero byte would pass the CRC check, raised
C12_Witness ==
    /\ gen = "raised" /\ err = "ShortBlock"
    /\ Len(outs) = 1
    /\ Len(file) = 2 * BLOCK_LEN - 1

\* the step reads a whole frame whose CRC differs from the low 16 bits of
\* its trailer
ReadsBadFrame ==
    /\ BlockRead /\ LeftInFile >= BLOCK_LEN
    /\ LET block == ReadBlock(file, fpos)
           t == Trailer(block)
       IN crc_ccitt(Payload(block)) # t[1] + 256 * t[2]

\* the step yields a pair
YieldsBlock == Len(outs') = Len(outs) + 1

\* C13: a frame whose CRC differs from the low 16 bits of its trailer makes
\* the reader raise the CRC mismatch error with the block index, and from
\* then on the reader yields no block, whatever the consumer does with it
\* (a new iteration on the same open reader included).
C13_MismatchStopsReader ==
    /\ [][ReadsBadFrame =>
            /\ gen' = "raised" /\ err' = "CrcMismatch"
            /\ errIdx' = (IF gen = "yield" THEN idx + 1 ELSE idx)
            /\ blk' = << >> /\ ~YieldsBlock]_vars
    /\ [][badAt # NoBad => ~YieldsBlock]_vars

\* after the mismatch a second iteration on the open reader handed over the
\* frame that follows the bad one
C13_Witness ==
    /\ badAt = 0 /\ nIter = 2
    /\ gen = "yield" /\ Len(blk) = 1
    /\ blk[1].payload = Payload(ReadBlock(file, BLOCK_LEN))
    /\ fpos = 2 * BLOCK_LEN

\* the high 16 bits a trailer can carry in the model
HighBits == { << 0, 0 >>, << 255, 127 >>, << 1, 0 >>, << 0, 64 >> }

\* the frame with block's payload and low trailer bytes, and the high bytes h
WithHighBits(block, h) == SubSeq(block, 1, Len(block) - 2) \o h

\* C14: whether a frame is accepted depends on the low 16 bits of its
\* little-endian trailer only: a whole frame read is yielded exactly when
\* these equal the CRC of its payload, the yielded payload is the frame's,
\* and the frame with any other high 16 bits comes to the same.
C14_HighBitsIgnored ==
    [][(BlockRead /\ LeftInFile >= BLOCK_LEN) =>
           LET block == ReadBlock(file, fpos)
               t == Trailer(block)
           IN /\ YieldsBlock <=> (crc_ccitt(Payload(block)) = t[1] + 256 * t[2])
              /\ YieldsBlock => blk'[1].payload = Payload(block)
              /\ ~YieldsBlock => gen' = "raised" /\ err' = "CrcMismatch"
              /\ \A h \in HighBits :
                    /\ BlockOutcome(WithHighBits(block, h)) = BlockOutcome(block)
                    /\ Payload(WithHighBits(block, h)) = Payload(block)]_vars

\* a frame whose trailer has high bits set was yielded
C14_Witness ==
    /\ gen = "yield" /\ fpos = BLOCK_LEN
    /\ file[BLOCK_LEN] = 127 /\ file[BLOCK_LEN - 1] = 255
    /\ blk[1].payload = SubSeq(file, 1, BLOCK_LEN - 4)

\* frame j (from 0) of the file
FrameAt(j) == SubSeq(file, j * BLOCK_LEN + 1, (j + 1) * BLOCK_LEN)

\* the file is whole frames, each with the CRC of its payload in the low 16
\* bits of its trailer
WholeGoodFile ==
    /\ Len(file) % BLOCK_LEN = 0
    /\ \A j \in 0..((Len(file) \div BLOCK_LEN) - 1) :
          crc_ccitt(SubSeq(FrameAt(j), 1, BLOCK_LEN - 4))
              = FrameAt(j)[BLOCK_LEN - 3] + 256 * FrameAt(j)[BLOCK_LEN - 2]

\* the consumer is inside its `with` statement with the one iteration it
\* has made, and did not run it before entering
FirstIterationInside == scope = "inside" /\ nIter = 1 /\ err # "NotEntered"

\* C15: over a file of k >= 0 whole frames with correct CRCs, the iteration
\* of a freshly entered reader yields the pairs (0, payload of frame 0),
\* (1, payload of frame 1), ... in this order, raises nothing, and returns
\* after exactly k of them (after none when the file is empty).
C15_YieldsEveryFrameInOrder ==
    (WholeGoodFile /\ FirstIterationInside) =>
        /\ gen # "raised" /\ err = "none"
        /\ \A j \in 1..Len(outs) :
              outs[j] = [idx |-> j - 1,
                         payload |-> SubSeq(FrameAt(j - 1), 1, BLOCK_LEN - 4)]
        /\ Len(outs) * BLOCK_LEN = fpos
        /\ gen = "yield" => blk = << outs[Len(outs)] >>
        /\ gen = "returned" => Len(outs) * BLOCK_LEN = Len(file) /\ blk = << >>
        /\ gen = "start" => outs = << >>

\* the iteration over a file of MaxFrames good frames has returned
C15_Witness ==
    /\ WholeGoodFile /\ FirstIterationInside
    /\ Len(file) = MaxFrames * BLOCK_LEN
    /\ gen = "returned" /\ Len(outs) = MaxFrames
    /\ outs[MaxFrames].idx = MaxFrames - 1

\* the iteration over the empty file has returned
C15_WitnessEmpty ==
    /\ file = << >> /\ FirstIterationInside
    /\ gen = "returned" /\ outs = << >>

(***************************************************************************)
(* Properties of the CRC engine.                                           *)
(***************************************************************************)
\* crcIn with the replacement recorded in crcAlt
Corrupted == [crcIn EXCEPT ![crcAlt[1].pos] = crcAlt[1].byte]

\* the 4-byte little-endian trailer that carries the CRC c
TrailerOf(c) == << c % 256, c \div 256, 0, 0 >>

\* C16: a payload p' that differs from p in exactly one byte has another
\* CRC than p; so a block, or a bank, whose trailer carries the CRC of p
\* fails the CRC check when its payload is p'.
C16_SingleByteCorruptionDetected ==
    crcAlt # << >> =>
        /\ Len(Corrupted) = Len(crcIn)
        /\ crcAlt[1].crc # crcOut
        /\ ~CrcMatches(U32LE(TrailerOf(crcOut)), Corrupted)
        /\ EndBankOutcome(U32LE(TrailerOf(crcOut)), Corrupted) = "BankCrcMismatch"
        /\ Len(crcIn) = BLOCK_LEN - 4 =>
              /\ BlockOutcome(crcIn \o TrailerOf(crcOut)) = "yield"
              /\ BlockOutcome(Corrupted \o TrailerOf(crcOut)) = "CrcMismatch"

\* the last byte of a payload of MaxCrcLen bytes was replaced by the byte
\* with only the top bit changed
C16_Witness ==
    /\ crcAlt # << >> /\ Len(crcIn) = MaxCrcLen
    /\ crcAlt[1].pos = MaxCrcLen
    /\ crcIn[MaxCrcLen] = 1 /\ crcAlt[1].byte = 129

\* The CRC from its definition, on bits.  The message is the bits of the
\* input, every byte bit-reversed (that is, least significant bit first),
\* followed by 16 zero bits; it is divided by the polynomial 0x1021 with its
\* leading term, x^16 + x^12 + x^5 + 1; the 16-bit remainder is bit-reversed.
CrcPolyBits == << 1, 0, 0, 0, 1, 0, 0, 0, 0, 0, 0, 1, 0, 0, 0, 0, 1 >>

RECURSIVE Pow2(_)
Pow2(k) == IF k = 0 THEN 1 ELSE 2 * Pow2(k - 1)

ReflectedBits(p) ==
    [k \in 1..(8 * Len(p)) |-> (p[((k - 1) \div 8) + 1] \div Pow2((k - 1) % 8)) % 2]

RECURSIVE PolyRemainder(_, _)
PolyRemainder(bits, i) ==
    IF i > Len(bits) - 16 THEN SubSeq(bits, Len(bits) - 15, Len(bits))
    ELSE IF bits[i] = 0 THEN PolyRemainder(bits, i + 1)
    ELSE PolyRemainder(
            [k \in 1..Len(bits) |->
                IF k >= i /\ k <= i + 16
                THEN (bits[k] + CrcPolyBits[k - i + 1]) % 2
                ELSE bits[k]],
            i + 1)

RECURSIVE BitsValueReversed(_, _)
BitsValueReversed(r, k) ==
    IF k > Len(r) THEN 0 ELSE r[k] * Pow2(k - 1) + BitsValueReversed(r, k + 1)

CrcByDefinition(p) ==
    BitsValueReversed(PolyRemainder(ReflectedBits(p) \o [k \in 1..16 |-> 0], 1), 1)

\* C17: the table-driven crc equals the reflected CRC-16 computed bit by bit
\* from its definition (polynomial 0x1021, initial value 0, input bytes and
\* final value bit-reversed), lies in 0..65535, and is 0 for the empty input.
C17_TableCrcIsReflectedCrc16 ==
    crcOut # NoCrc =>
        /\ crcOut = CrcByDefinition(crcIn)
        /\ crcOut \in 0..65535
        /\ crcIn = << >> => crcOut = 0
        /\ crcAlt # << >> => crcAlt[1].crc = CrcByDefinition(Corrupted)

\* the engine ran on a three-byte input with a non-zero result
C17_Witness ==
    /\ crcOut # NoCrc /\ crcOut > 255
    /\ crcIn = << 1, 255, 1 >>

(***************************************************************************)
(* The handle of the Block Reader.                                         *)
(***************************************************************************)
\* the iteration has ended: the generator returned or raised
IterationEnded == gen \in {"returned", "raised"}

\* C18 as stated: the handle is released whenever iteration ends, so that in
\* no state has the iteration ended with the handle still open.
C18_ReleasedWhenIterationEnds == IterationEnded => fh = "None"

\* C18, amended: the handle is open exactly while the consumer is inside its
\* `with` statement.  __exit__ releases it when the statement is left,
\* whether the iteration has ended, has failed or was abandoned at a yield;
\* the end of an iteration does not release it.
C18_ReleasedWhenScopeExits ==
    /\ fh = "open" <=> scope = "inside"
    /\ scope = "after" => fh = "None"

\* the consumer left the `with` statement with the generator suspended at a
\* yield and frames still unread
C18_Witness ==
    /\ scope = "after" /\ fh = "None"
    /\ gen = "yield" /\ fpos < Len(file)

(***************************************************************************)
(* Properties of the Event Assembler.                                      *)
(***************************************************************************)
IsMarker(b) == b.bank_id \in {start_id, stop_id}

\* the Banks taken so far begin the sequence [start, A, B, stop] with A and
\* B no markers and start_id # stop_id
SeenOfStartABStop ==
    /\ start_id # stop_id
    /\ Len(seen) \in 1..4
    /\ seen[1].bank_id = start_id
    /\ Len(seen) >= 2 => ~IsMarker(seen[2])
    /\ Len(seen) >= 3 => ~IsMarker(seen[3])
    /\ Len(seen) = 4 => seen[4].bank_id = stop_id

\* C19: over the bank sequence [start, A, B, stop] (A, B no markers,
\* start_id # stop_id) exactly one Event is emitted, at the stop marker; its
\* banks are [A, B] when keep_markers is False and [start, A, B, stop] when
\* it is True.
C19_OneEventPerStartStop ==
    SeenOfStartABStop =>
        IF Len(seen) < 4
        THEN emitted = << >> /\ event = << >>
        ELSE /\ emitted = << IF keep_markers THEN seen ELSE SubSeq(seen, 2, 3) >>
             /\ evPc = "yield_stop" => event = emitted
             /\ evPc # "yield_stop" => event = << >>

\* the generator returned after [start, A, B, stop] with A # B and the
\* markers kept
C19_Witness ==
    /\ SeenOfStartABStop /\ Len(seen) = 4
    /\ evPc = "done" /\ keep_markers
    /\ seen[2] # seen[3]
    /\ Len(emitted) = 1 /\ Len(emitted[1]) = 4

\* the step takes a start marker while an event is open with banks in it
StartInOpenEvent ==
    /\ evPc = "loop" /\ in_event /\ banks # << >>
    /\ Len(seen') = Len(seen) + 1
    /\ seen'[Len(seen')].bank_id = start_id

\* C20: a start marker that arrives while an event is open with a non-empty
\* list makes exactly that list be emitted as one Event, before the new
\* event opens; when the generator goes on from that yield the new event is
\* open and its list is the marker alone when keep_markers is True, and
\* empty when it is False.
C20_StartClosesOpenEvent ==
    /\ [][StartInOpenEvent =>
            /\ evPc' = "yield_start"
            /\ event' = << banks >>
            /\ emitted' = Append(emitted, banks)
            /\ banks' = banks /\ in_event']_vars
    /\ [][(evPc = "yield_start" /\ evPc' # evPc) =>
            /\ evPc' = "loop" /\ in_event'
            /\ banks' = (IF keep_markers THEN << seen[Len(seen)] >> ELSE << >>)
            /\ seen[Len(seen)].bank_id = start_id
            /\ emitted' = emitted /\ event' = << >>]_vars

\* a start marker closed an event of two banks and, with the markers
\* dropped, the new event has been opened with an empty list
C20_Witness ==
    /\ ~keep_markers /\ in_event /\ banks = << >>
    /\ evPc = "loop"
    /\ Len(seen) = 4 /\ seen[4].bank_id = start_id
    /\ emitted = << SubSeq(seen, 2, 3) >>

\* the step takes a start marker while an event is open
StartWhileOpen ==
    /\ evPc = "loop" /\ in_event
    /\ Len(seen') = Len(seen) + 1
    /\ seen'[Len(seen')].bank_id = start_id

\* C21: a second start marker before a stop marker always makes the banks
\* accumulated for the first event be emitted as an Event before the new
\* event opens, also when that list is empty.
C21_SecondStartAlwaysEmits ==
    [][StartWhileOpen =>
            /\ evPc' = "yield_start"
            /\ event' = << banks >>
            /\ emitted' = Append(emitted, banks)]_vars

\* two start markers in a row with the markers dropped: the second one was
\* taken with the event open and its list empty, and no Event was emitted
C21_Witness ==
    /\ ~keep_markers /\ Len(seen) = 2
    /\ seen[1].bank_id = start_id /\ seen[2].bank_id = start_id
    /\ in_event /\ evPc = "loop"
    /\ emitted = << >>

\* the arrival number of a Bank of the model
ArrivalOf(b) == b.data[9]

\* whether an event is open after the first j Banks taken, by the rules of
\* the markers
RECURSIVE OpenAfter(_)
OpenAfter(j) ==
    IF j = 0 THEN FALSE
    ELSE IF seen[j].bank_id = start_id THEN TRUE
    ELSE IF seen[j].bank_id = stop_id THEN FALSE
    ELSE OpenAfter(j - 1)

\* the Bank that arrived j-th found no event open and is no start marker
ArrivedOutside(j) == ~OpenAfter(j - 1) /\ seen[j].bank_id # start_id

\* the step takes a Bank that is no start marker while no event is open
TakesOutsideBank ==
    /\ evPc = "loop" /\ ~in_event
    /\ Len(seen') = Len(seen) + 1
    /\ seen'[Len(seen')].bank_id # start_id

\* C22: a Bank that is no start marker and arrives while no event is open
\* has no effect: no Event is emitted for it, no event is open after it and
\* the buffer is empty, and the Bank is in no Event emitted at any time.
C22_OutsideBankIgnored ==
    /\ [][TakesOutsideBank =>
            /\ banks = << >>
            /\ UNCHANGED << in_event, banks, evPc, event, emitted >>]_vars
    /\ [](\A e \in 1..Len(emitted) : \A i \in 1..Len(emitted[e]) :
            LET j == ArrivalOf(emitted[e][i])
            IN /\ j \in 1..Len(seen) /\ seen[j] = emitted[e][i]
               /\ ~ArrivedOutside(j))
    /\ [](\A i \in 1..Len(banks) : ~ArrivedOutside(ArrivalOf(banks[i])))

\* a stop marker and another Bank arrived with no event open, and the Event
\* of the start..stop pair after them has been emitted with the markers
C22_Witness ==
    /\ Len(seen) = 5 /\ keep_markers /\ start_id # stop_id
    /\ seen[1].bank_id = stop_id /\ ~IsMarker(seen[2])
    /\ seen[3].bank_id = start_id /\ ~IsMarker(seen[4])
    /\ seen[5].bank_id = stop_id
    /\ emitted = << SubSeq(seen, 3, 5) >>

\* the markers that arrived while an event was open
MarkersWhileOpen ==
    { j \in 1..Len(seen) : IsMarker(seen[j]) /\ OpenAfter(j - 1) }

\* the Banks of the Events emitted so far
EmittedBanks == UNION { { emitted[e][i] : i \in 1..Len(emitted[e]) } : e \in 1..Len(emitted) }

\* C23: when the bank sequence ends while an event is open, the banks
\* accumulated in that event are not emitted, then or later; at any time
\* there are at most as many Events emitted as stop and start markers that
\* arrived while an event was open.
C23_TrailingEventDropped ==
    /\ [][(evPc = "loop" /\ evPc' = "done") =>
            emitted' = emitted /\ event' = << >>]_vars
    /\ [][evPc = "done" => emitted' = emitted /\ evPc' = "done"]_vars
    /\ [](Len(emitted) <= Cardinality(MarkersWhileOpen))
    /\ []((evPc = "done" /\ in_event) =>
            \A i \in 1..Len(banks) : banks[i] \notin EmittedBanks)

\* the sequence ended after one Event, with a second event open and two
\* banks accumulated in it
C23_Witness ==
    /\ evPc = "done" /\ in_event
    /\ Len(banks) = 2 /\ Len(emitted) = 1 /\ Len(seen) = 5

(***************************************************************************)
(* Properties of the pipeline.                                             *)
(***************************************************************************)
\* the id of the j-th bank written into the stream (the bank of the tail
\* comes last)
ScriptId(j) == IF j <= Len(script.banks) THEN script.banks[j] ELSE 3

\* the arrival numbers of the Banks of the first n emitted Events, in the
\* order of the Events and of their lists
RECURSIVE EmittedArrivals(_)
EmittedArrivals(n) ==
    IF n = 0 THEN << >>
    ELSE EmittedArrivals(n - 1)
         \o [i \in 1..Len(emitted[n]) |-> ArrivalOf(emitted[n][i])]

StrictlyIncreasing(q) == \A i \in 1..(Len(q) - 1) : q[i] < q[i + 1]

\* C24: order is kept through the pipeline.  The j-th Bank the Bank
\* Assembler yields is the bank whose END_BANK is the j-th of the byte
\* stream; the Banks of every emitted Event are in the order in which the
\* Bank Assembler yielded them, and every Bank of an Event was yielded
\* before every Bank of the next Event.
C24_OrderPreserved ==
    /\ Len(seen) <= nYielded /\ nYielded <= Len(seen) + 1
    /\ \A j \in 1..Len(seen) : seen[j] = MakeBank(PipeData(ScriptId(j), j))
    /\ pc = "yield" => bank = << MakeBank(PipeData(ScriptId(nYielded), nYielded)) >>
    /\ StrictlyIncreasing(EmittedArrivals(Len(emitted)))
    /\ \A e \in 1..Len(emitted) : \A i \in 1..Len(emitted[e]) :
          ArrivalOf(emitted[e][i]) \in 1..Len(seen)
          /\ emitted[e][i] = seen[ArrivalOf(emitted[e][i])]
    /\ StrictlyIncreasing([i \in 1..Len(banks) |-> ArrivalOf(banks[i])])

\* the stream start, start, stop was decoded with the markers kept: two
\* Events, the second of two Banks
C24_Witness ==
    /\ keep_markers /\ evPc = "done" /\ prior = << >>
    /\ script = [banks |-> << 1, 1, 2 >>, tail |-> "end"]
    /\ Len(emitted) = 2
    /\ EmittedArrivals(2) = << 1, 2, 3 >>

\* the stream is being decoded the second time
SecondDecoding == prior # << >>

ErrorOf(sc) ==
    CASE sc.tail \in {"ShortBlock", "CrcMismatch"} -> sc.tail
      [] sc.tail = "badcrc" -> "BankCrcMismatch"
      [] sc.tail = "short" -> "BankTooShort"
      [] OTHER -> "none"

\* an integrity error has reached the for loop of _iter_events
UpstreamRaised == pc = "done" /\ outcome \in IntegrityErrors

\* C26: an integrity error of an upstream stage surfaces as an error: the
\* Bank Assembler ends normally only on a stream without one, the Event
\* sequence ends normally only if the Bank Assembler did, the error raised is
\* the one of the stream, and once it is raised no further Bank is yielded
\* or taken and no further Event is emitted: all that follows is that the
\* Event Assembler raises.
C26_UpstreamErrorSurfaces ==
    /\ [](/\ outcome = "end" => ErrorOf(script) = "none"
          /\ outcome \in IntegrityErrors => outcome = ErrorOf(script)
          /\ evPc = "done" => outcome = "end"
          /\ evPc = "raised" => UpstreamRaised)
    /\ [][UpstreamRaised =>
              /\ UpstreamRaised'
              /\ outcome' = outcome /\ nYielded' = nYielded
              /\ seen' = seen /\ emitted' = emitted
              /\ evPc' \in {evPc, "raised"}]_vars

\* the Block Reader raised a CRC mismatch after the blocks of one whole
\* event and the Event Assembler has raised, the Event emitted before
C26_Witness ==
    /\ evPc = "raised" /\ outcome = "CrcMismatch"
    /\ script = [banks |-> << 1, 3, 2 >>, tail |-> "CrcMismatch"]
    /\ Len(emitted) = 1 /\ Len(seen) = 3

(***************************************************************************)
(* Properties of the recipe interpreter.                                   *)
(***************************************************************************)
\* the condition of the operation at opIdx evaluates to false
CondIsFalse ==
    IsUnpack /\ HasCond /\ CondValue.e = "none" /\ ~Truthy(CondValue)

\* the fields of the operations that stored one
FieldsStored == {ops[stored[j]].field : j \in 1..Len(stored)}

GuardIsFalse ==
    InLoop /\ HasGuard /\ GuardValue.e = "none" /\ ~Truthy(GuardValue)

\* the calls of _unpack_values the loop of the operation at j made
LoopCallsOf(j) == SelectSeq(extracted, LAMBDA c : c.op = j /\ c.loop)

\* C28: in a looped operation an iteration whose guard evaluates to false
\* in the context of the result mapping and the loop variable consumes no
\* bytes and adds nothing to the collected list; an iteration that extracts
\* does so at the current cursor and adds one element, the iterations come
\* in increasing index order, each extraction beginning where the one before
\* ended, and when the bound is reached the collected list, maybe empty, is
\* stored under the field name.
C28_GuardedLoop ==
    /\ [](rcpPc = "iter" =>
            LET cs == LoopCallsOf(opIdx)
            IN /\ loop_i >= 0 /\ (bound >= 0 => loop_i <= bound)
               /\ Len(collected) = Len(cs) /\ Len(cs) <= loop_i
               /\ \A k \in 1..Len(cs) :
                     /\ collected[k].vals = cs[k].values[1]
                     /\ cs[k].i < loop_i
                     /\ k < Len(cs) => /\ cs[k].i < cs[k + 1].i
                                       /\ cs[k].to = cs[k + 1].at
               /\ Len(cs) > 0 => cs[Len(cs)].to = offset)
    /\ [][GuardIsFalse =>
             /\ offset' = offset /\ collected' = collected
             /\ extracted' = extracted /\ result' = result
             /\ loop_i' = loop_i + 1 /\ rcpPc' = "iter"]_vars
    /\ [][(InLoop /\ GuardPasses /\ rcpPc' = "iter") =>
             /\ Len(extracted') = Len(extracted) + 1
             /\ extracted'[Len(extracted')].at = offset
             /\ extracted'[Len(extracted')].i = loop_i
             /\ offset' = extracted'[Len(extracted')].to
             /\ Len(collected') = Len(collected) + 1
             /\ loop_i' = loop_i + 1]_vars
    /\ [][(rcpPc = "iter" /\ ~InLoop) =>
             /\ Op.field \in DOMAIN result'
             /\ result'[Op.field] = [loop |-> TRUE, elems |-> collected]
             /\ offset' = offset /\ rcpPc' = "op"]_vars

\* f = [0, 1] was stored; the guarded loop on g skipped iteration 0 and
\* took the value of iteration 1 right after f
C28_Witness ==
    /\ rcpPc = "returned" /\ ops = << OpF, OpG >>
    /\ data = << 0, 0, 1, 0, 2, 0 >>
    /\ offset = 6
    /\ returned[1]["g"] = [loop |-> TRUE,
                           elems |-> << [single |-> TRUE, vals |-> << 2 >>] >>]
    /\ LoopCallsOf(2)[1].at = 4 /\ LoopCallsOf(2)[1].i = 1

\* the guarded loop on g skipped both iterations and stored the empty list
C28_WitnessEmpty ==
    /\ rcpPc = "returned" /\ ops = << OpF, OpG >>
    /\ data = << 0, 0, 0, 0, 2, 0 >>
    /\ offset = 4
    /\ returned[1]["g"] = [loop |-> TRUE, elems |-> << >>]

\* the step calls _unpack_values
Extracts == Len(extracted') = Len(extracted) + 1

\* the record of the call the step makes
ThisCall == extracted'[Len(extracted')]

\* the payload holds the bytes of the count values of call c
FitsPayload(c) == c.at + c.count * c.width <= Len(data)

\* what C29 expects of the step that makes call c: count values are
\* extracted, the cursor advances by count widths, and the single value
\* (count = 1) or the list of the values is stored or, in a loop, appended
StoresAll(c) ==
    LET elem == [single |-> c.count = 1,
                 vals |-> IF c.values = << >> THEN << >> ELSE c.values[1]]
    IN /\ exc' = "none"
       /\ c.values # << >> /\ Len(c.values[1]) = c.count
       /\ c.to = c.at + c.count * c.width
       /\ offset' = c.to
       /\ IF c.loop
          THEN collected' = Append(collected, elem)
          ELSE /\ Op.field \in DOMAIN result'
               /\ result'[Op.field] = [loop |-> FALSE, elems |-> << elem >>]

\* C29: every extraction with evaluated count c >= 0 that the payload has
\* the bytes for extracts exactly c values, advances the cursor by c times
\* the width of the type and stores (in a loop, appends) the single value
\* when c = 1 and the list of the c values for every other c, c = 0
\* included.
C29_EveryCountStored ==
    [][(Extracts /\ ThisCall.count >= 0 /\ FitsPayload(ThisCall))
          => StoresAll(ThisCall)]_vars

\* what holds of the code: the same for every count c >= 1
ExtractionOfPositiveCount ==
    [][(Extracts /\ ThisCall.count >= 1 /\ FitsPayload(ThisCall))
          => StoresAll(ThisCall)]_vars

\* what holds of the code: a call with a count below 1 extracts nothing,
\* leaves the cursor and raises IndexError at vals[0]
ExtractionOfNoValueRaises ==
    [][(Extracts /\ ThisCall.count < 1) =>
          /\ ThisCall.values = << << >> >> /\ ThisCall.to = ThisCall.at
          /\ exc' = "IndexError" /\ rcpPc' = "raised"
          /\ UNCHANGED << offset, result, collected, returned >>]_vars

\* n = 0 was stored and the extraction of a with count n raised IndexError
C29_Witness ==
    /\ rcpPc = "raised" /\ exc = "IndexError"
    /\ ops = << OpN, OpA >> /\ data = << 0, 0 >>
    /\ Len(extracted) = 2 /\ extracted[2].count = 0
    /\ DOMAIN result = {"n"}

\* the bytes of data the v-th value of call c is made of
ChunkOf(c, v) ==
    SubSeq(data, c.at + (v - 1) * c.width + 1, c.at + v * c.width)

\* C30: when fewer bytes remain after the cursor than the next value to
\* extract is wide, interpret_recipe raises the truncated-data error: it
\* returns no mapping and stores nothing; and every value a call returned
\* is made of the bytes of the payload at its place after the cursor of the
\* call, all of them inside the payload, never of a default and never of
\* bytes before the cursor.
C30_TruncatedPayloadRaises ==
    /\ [][(Extracts /\ ThisCall.count >= 1 /\ ~FitsPayload(ThisCall)) =>
             /\ exc' = "ValueError" /\ rcpPc' = "raised"
             /\ ThisCall.values = << >>
             /\ returned' = << >>
             /\ UNCHANGED << offset, result, collected, stored >>]_vars
    /\ [](/\ exc # "none" => returned = << >> /\ rcpPc = "raised"
          /\ \A k \in 1..Len(extracted) :
                LET c == extracted[k]
                IN c.values # << >> =>
                     /\ c.to <= Len(data)
                     /\ c.to = c.at + Len(c.values[1]) * c.width
                     /\ \A v \in 1..Len(c.values[1]) :
                           c.values[1][v]
                             = UnpackValue(ops[c.op].func, ChunkOf(c, v)))

\* n = 1 was stored and three bytes were left for the four of c
C30_Witness ==
    /\ rcpPc = "raised" /\ exc = "ValueError"
    /\ ops = << OpN, OpC >> /\ data = << 1, 0, 2, 0, 1 >>
    /\ offset = 2 /\ DOMAIN result = {"n"} /\ returned = << >>

\* a stored single value and a stored list
Scalar(x) == [loop |-> FALSE, elems |-> << [single |-> TRUE, vals |-> << x >>] >>]
ListOf(vs) == [loop |-> FALSE, elems |-> << [single |-> FALSE, vals |-> vs] >>]

\* the record the values w were written from: the list of one value is
\* taken as read back also when the value itself is stored
RecordOf(w, m) ==
    /\ DOMAIN m = IF w.version >= 2 THEN {"bankversion", "n", "a", "t"}
                  ELSE {"bankversion", "n", "a"}
    /\ m["bankversion"] = Scalar(w.version)
    /\ m["n"] = Scalar(Len(w.vals))
    /\ IF Len(w.vals) = 1 THEN m["a"] \in {Scalar(w.vals[1]), ListOf(w.vals)}
       ELSE m["a"] = ListOf(w.vals)
    /\ w.version >= 2 => m["t"] = Scalar(w.t)

\* the encoding of w is decoded with the round-trip recipe
Decodes(w) == ops = RoundTripRecipe /\ data = Encode(w)

\* C31: round trip.  Decoding the little-endian encoding of a version, a
\* count n >= 0, n values and a version-gated trailing field never fails and
\* returns those values, with the gated field when the version satisfies
\* the gate and without it when it does not.
C31_RoundTrip ==
    \A w \in RoundTripInputs :
        Decodes(w) => /\ rcpPc # "raised"
                      /\ rcpPc = "returned" => RecordOf(w, returned[1])

\* what holds of the code: the same for every n >= 1
RoundTripOfOneOrMore ==
    \A w \in RoundTripInputs :
        (Decodes(w) /\ Len(w.vals) >= 1) =>
            /\ rcpPc # "raised"
            /\ rcpPc = "returned" => RecordOf(w, returned[1])

\* the encoding of version 2 with n = 0 was decoded up to n and the
\* extraction of the n values raised IndexError
C31_Witness ==
    /\ Decodes([version |-> 2, vals |-> << >>, t |-> 3])
    /\ rcpPc = "raised" /\ exc = "IndexError"
    /\ DOMAIN result = {"bankversion", "n"}

\* the encodings of two values were decoded and returned, with and without
\* the gated field
RoundTripReturned ==
    /\ rcpPc = "returned" /\ Len(data) \in {12, 16}
    /\ \E w \in RoundTripInputs :
          Decodes(w) /\ w.vals = << 1, 65535 >> /\ RecordOf(w, returned[1])

\* the extraction of call c was performed: _unpack_values returned the
\* count values asked for
Performed(c) == c.values # << >> /\ Len(c.values[1]) = c.count

RECURSIVE BytesExtracted(_)
\* the sum, over the extractions performed among the first n calls, of
\* count times the width of the type
BytesExtracted(n) ==
    IF n = 0 THEN 0
    ELSE BytesExtracted(n - 1)
         + (IF Performed(extracted[n])
            THEN extracted[n].count * extracted[n].width ELSE 0)

\* C32: the cursor starts at 0, never decreases and changes only by
\* extraction: it is at any time the sum over the extractions performed so
\* far of count times the width of the type, and never beyond the end of
\* the payload.
C32_CursorIsSumOfExtractions ==
    /\ [](/\ offset = BytesExtracted(Len(extracted))
          /\ offset >= 0 /\ offset <= Len(data)
          /\ extracted = << >> => offset = 0)
    /\ [][/\ offset' >= offset
          /\ offset' # offset =>
               /\ Extracts /\ Performed(ThisCall)
               /\ ThisCall.at = offset /\ ThisCall.to = offset'
               /\ offset' = offset + ThisCall.count * ThisCall.width]_vars

\* three extractions moved the cursor to the end of the encoding of
\* version 2, n = 2: 4 + 4 + 2 * 2 + 4 bytes
C32_Witness ==
    /\ rcpPc = "returned" /\ ops = RoundTripRecipe
    /\ Len(extracted) = 4 /\ offset = 16 /\ Len(data) = 16
    /\ extracted[3].count = 2 /\ extracted[3].at = 8 /\ extracted[3].to = 12

(***************************************************************************)
(* Properties of the Bank Assembler over block payloads cut anywhere.      *)
(***************************************************************************)
\* what the written stream decodes to, whatever the payloads: the number of
\* its Banks and how the iteration ends
BanksWritten(sc) == Len(sc.banks) + (IF sc.tail = "split" THEN 1 ELSE 0)
OutcomeWritten(sc) ==
    CASE sc.tail = "badcrc" -> "BankCrcMismatch"
      [] sc.tail = "short" -> "BankTooShort"
      [] OTHER -> "end"

\* the Banks yielded so far are the first ones written, and the iteration
\* has ended only as the stream says, after all its Banks
ResultAsWritten ==
    /\ \A j \in 1..Len(seen) : seen[j] = MakeBank(PipeData(ScriptId(j), j))
    /\ nYielded <= BanksWritten(script)
    /\ pc = "done" => /\ outcome = OutcomeWritten(script)
                      /\ nYielded = BanksWritten(script)

\* C33: the Banks and the outcome of the Bank Assembler depend only on the
\* concatenation of the block payloads: however the written stream is cut
\* into payloads, inside segments, length fields and CRC trailers, and also
\* with an empty payload among them, the result is the one written.
C33_BoundariesDoNotMatter == ResultAsWritten

\* what holds of the code: the same as long as no payload is empty
CutIntoNonEmptyPayloads == feed.empty = 0 => ResultAsWritten

\* what holds of the code: an empty payload met by read_exact changes
\* nothing; the only other outcome is the IndexError of read1
EmptyPayloadInsideField == outcome # "IndexError" => ResultAsWritten

\* the only payload delivered before the one-bank stream was empty and the
\* iteration ended with IndexError, no Bank yielded
C33_Witness ==
    /\ pc = "done" /\ outcome = "IndexError"
    /\ script = [banks |-> << 3 >>, tail |-> "end"]
    /\ feed.empty = 1 /\ nYielded = 0 /\ Len(feed.rest) = Len(PipeStream(script))

\* an empty payload came inside a field and the stream ended as written
EmptyPayloadSkipped ==
    /\ pc = "done" /\ outcome = "end" /\ feed.empty = 1
    /\ script = [banks |-> << 3 >>, tail |-> "split"] /\ nYielded = 2

\* the step takes a stop marker (a Bank whose id is stop_id and not start_id,
\* which line 40 would take as a start marker) while an event is open
StopWhileOpen ==
    /\ evPc = "loop" /\ in_event
    /\ Len(seen') = Len(seen) + 1
    /\ seen'[Len(seen')].bank_id = stop_id
    /\ stop_id # start_id

\* the Banks taken are a start marker and then a stop marker
SeenStartThenStop ==
    /\ start_id # stop_id /\ Len(seen) = 2
    /\ seen[1].bank_id = start_id /\ seen[2].bank_id = stop_id

\* C35: a stop marker that arrives while an event is open always emits an
\* Event (the accumulated list, followed by the marker when keep_markers is
\* True) whether the list is empty or not, and the event is closed when the
\* generator goes on; after [start, stop] exactly one Event is emitted, with
\* zero banks when keep_markers is False and [start, stop] when it is True.
C35_StopAlwaysEmits ==
    /\ [][StopWhileOpen =>
            LET e == IF keep_markers
                     THEN Append(banks, seen'[Len(seen')])
                     ELSE banks
            IN /\ evPc' = "yield_stop"
               /\ event' = << e >>
               /\ emitted' = Append(emitted, e)]_vars
    /\ [][(evPc = "yield_stop" /\ evPc' # evPc) =>
            /\ evPc' = "loop" /\ ~in_event' /\ banks' = << >>
            /\ emitted' = emitted /\ event' = << >>]_vars
    /\ [](SeenStartThenStop =>
            emitted = << IF keep_markers THEN seen ELSE << >> >>)

\* start immediately followed by stop with the markers dropped: one Event
\* of zero banks was emitted and the event is closed
C35_Witness ==
    /\ SeenStartThenStop /\ ~keep_markers
    /\ evPc = "loop" /\ ~in_event /\ banks = << >>
    /\ emitted = << << >> >>

\* the same with the markers kept: the Event is [start, stop]
StartStopKept ==
    /\ SeenStartThenStop /\ keep_markers
    /\ evPc = "yield_stop"
    /\ event = << seen >> /\ emitted = << seen >>

(***************************************************************************)
(* END_BANK with no bank open (bankassembler.py lines 145-166)             *)
(***************************************************************************)

\* C37: END_BANK met while no bank is open, or with an empty buffer, is
\* always fatal and yields no Bank: when no bank is open the buffer is
\* empty, and with an empty buffer the trailer is compared with the CRC of
\* the empty buffer, 0: low 16 bits of 0 raise the bank-too-short error, any
\* other value raises the bank CRC mismatch error.
C37_EndBankWithoutBank ==
    /\ [](~started => bank_buf = << >>)
    /\ [][(AtTrailerEnd /\ bank_buf = << >>) =>
            /\ pc' = "done"
            /\ outcome' = IF TrailerLow16 = 0
                          THEN "BankTooShort" ELSE "BankCrcMismatch"
            /\ bank' = << >>
            /\ nYielded' = nYielded]_vars

\* after a yielded Bank, END_BANK with no bank open and a trailer of low 16
\* bits 0 (its high bits are not 0) raised the bank-too-short error
C37_Witness ==
    /\ outcome = "BankTooShort" /\ pc = "done"
    /\ ~started /\ bank_buf = << >>
    /\ TrailerLow16 = 0 /\ acc[3] = 255
    /\ nYielded = 1

\* END_BANK as the first verb of the stream with a trailer that is not 0
EndBankFirstMismatch ==
    /\ outcome = "BankCrcMismatch" /\ pc = "done"
    /\ ~started /\ bank_buf = << >> /\ opened = "none"
    /\ TrailerLow16 = 257
    /\ nYielded = 0

(***************************************************************************)
(* Evaluation of expressions (recipe_reader.py lines 28-34, 69-93)         *)
(***************************************************************************)

\* the step extracts nothing, stores nothing and appends nothing: all it
\* does is evaluate a condition, a loop bound, a guard or a count
OnlyEvaluates ==
    /\ opIdx <= Len(ops)
    /\ rcpPc' # "returned"
    /\ Len(extracted') = Len(extracted)
    /\ stored' = stored
    /\ collected' = collected \/ collected' = << >>

\* the mappings m and n differ at most in field f
SameButFor(m, n, f) ==
    \A g \in ((DOMAIN m) \cup (DOMAIN n)) \ {f} :
        g \in DOMAIN m /\ g \in DOMAIN n /\ m[g] = n[g]

\* C34: evaluating a condition, a loop bound, a guard or a count expression
\* has no side effect: a step that only evaluates leaves the cursor and the
\* result mapping as they are, and every step of an operation leaves every
\* field of the result other than the operation's own as it is.
C34_EvaluationHasNoEffect ==
    [][/\ OnlyEvaluates => (result' = result /\ offset' = offset)
       /\ opIdx <= Len(ops) => SameButFor(result, result', Op.field)]_vars

\* a skipped operation whose condition is "(z := 0)" has put z, a field of
\* no operation, into the returned mapping
C34_Witness ==
    /\ rcpPc = "returned" /\ ops = << OpN, OpCS >>
    /\ data = << 1, 0, 2, 0 >>
    /\ stored = << 1 >>
    /\ DOMAIN returned[1] = {"n", "z"}

\* the assignment expression of a count changes the field another operation
\* stored: n is read as 1 and returned as 2
CountOverwritesField ==
    /\ rcpPc = "returned" /\ ops = << OpN, OpAS >>
    /\ data = << 1, 0, 1, 0, 2, 0 >>
    /\ returned[1]["n"] = Scalar(2)

\* the assignment expression of a guard reaches the context of the
\* iteration only, never the result mapping
GuardAssignmentStaysInContext ==
    (rcpPc = "returned" /\ ops = << OpN, OpGS >> /\ data = << 2, 0 >>)
        => returned[1]["n"] = Scalar(2)

(***************************************************************************)
(* OPCODE read as a verb (bankassembler.py lines 97-107, 168-170)          *)
(***************************************************************************)

\* the number of bytes read of the stream as written
BytesRead == Len(feed.s1) - Len(feed.rest)

\* the stream as written begins 0x60 0x60 V with V a verb other than OPCODE
TwoOpcodesThenVerb ==
    /\ feed.s1[1] = OPCODE /\ feed.s1[2] = OPCODE
    /\ feed.s1[3] \in BlockVerbs \cup BankVerbs

\* no verb has been executed: no bank is open, no field is being read, nothing
\* was yielded or raised
NothingExecuted ==
    /\ pc = "scan" /\ ~started /\ bank_buf = << >> /\ acc = << >>
    /\ opened = "none" /\ nYielded = 0 /\ outcome = "running"

\* C38: the byte after an OPCODE read while scanning is always consumed as
\* the verb, also when it is OPCODE: of a stream that begins 0x60 0x60 V the
\* second 0x60 is taken as a verb with no branch (nothing is executed and the
\* scan goes on), and V is then skipped as a stray byte and not executed.
C38_OpcodeAsVerb ==
    TwoOpcodesThenVerb =>
        /\ BytesRead = 1 => pc = "verb"
        /\ BytesRead = 2 => NothingExecuted /\ ~strays
        /\ BytesRead = 3 => NothingExecuted /\ strays

\* START_BANK after two OPCODE bytes opened no bank: the END_BANK of the
\* stream met an empty buffer and raised the CRC mismatch error
C38_Witness ==
    /\ TwoOpcodesThenVerb /\ feed.s1[3] = START_BANK
    /\ pc = "done" /\ outcome = "BankCrcMismatch"
    /\ ~started /\ bank_buf = << >> /\ nYielded = 0
    /\ feed.rest = << >>

\* after three OPCODE bytes the third is read as OPCODE again and the verb
\* is executed
VerbAfterThreeOpcodes ==
    /\ feed.s1[1] = OPCODE /\ feed.s1[2] = OPCODE /\ feed.s1[3] = OPCODE
    /\ feed.s1[4] = START_BANK
    /\ BytesRead = 4 /\ pc = "seglen" /\ started

\* the same bytes after one OPCODE are a Bank
VerbAfterOneOpcode ==
    /\ feed.s1[1] = OPCODE /\ feed.s1[2] = START_BANK
    /\ pc = "yield" /\ bank[1].data = SubSeq(feed.s1, 7, 15)

(***************************************************************************)
(* Marker banks in emitted Events (eventassembler.py lines 35-58)          *)
(***************************************************************************)

\* line 40: the Bank is taken as a start marker
IsStartMarker(b) == b.bank_id = start_id

\* line 48: the Bank is taken as a stop marker (line 40 did not take it)
IsStopMarker(b) == b.bank_id = stop_id /\ b.bank_id # start_id

\* C39: marker banks occur in emitted Events only at the ends and only when
\* kept. With keep_markers False no emitted Event holds a bank whose id is
\* start_id or stop_id; with keep_markers True every emitted Event begins
\* with a start marker, holds no other start marker, and holds a stop marker
\* only as its last bank.
C39_MarkersOnlyAtEnds ==
    \A j \in 1..Len(emitted) :
        LET e == emitted[j]
        IN IF ~keep_markers
           THEN \A i \in 1..Len(e) : e[i].bank_id \notin {start_id, stop_id}
           ELSE /\ e # << >>
                /\ IsStartMarker(e[1])
                /\ \A i \in 2..Len(e) : ~IsStartMarker(e[i])
                /\ \A i \in 1..Len(e) : IsStopMarker(e[i]) => i = Len(e)

\* with the markers kept, [start, A, start, B, stop] emitted [start, A] at
\* the second start marker and [start, B, stop] at the stop marker
C39_Witness ==
    /\ keep_markers /\ start_id # stop_id
    /\ Len(seen) = 5 /\ Len(emitted) = 2
    /\ emitted[1] = SubSeq(seen, 1, 2)
    /\ emitted[2] = SubSeq(seen, 3, 5)
    /\ IsStopMarker(seen[5]) /\ ~IsMarker(seen[2]) /\ ~IsMarker(seen[4])

\* with the markers dropped, the same sequence emitted [A] and [B]
MarkersDropped ==
    /\ ~keep_markers /\ start_id # stop_id
    /\ Len(seen) = 5 /\ IsStartMarker(seen[1]) /\ IsStartMarker(seen[3])
    /\ IsStopMarker(seen[5])
    /\ emitted = << << seen[2] >>, << seen[4] >> >>

(***************************************************************************)
(* Termination (bankassembler.py lines 38-69, 93-179)                      *)
(***************************************************************************)

\* both generators have returned or raised
Terminated == pc = "done" /\ evPc \in {"done", "raised"}

\* what is left to fetch: the bytes of the stream and the empty payloads
Unread == Len(feed.rest) + (MaxEmpty - feed.empty)

\* C36: over a finite sequence of finite payloads the iteration of the Bank
\* Assembler and of the Event Assembler over it terminates, by the end of
\* the sequence or by an error: every pass of the scanning loop, which begins
\* with the read1 of line 99, takes a byte of the stream or ends the
\* iteration; no step of a read puts anything back; and a consumer that
\* keeps asking reaches the end of both generators.
C36_IterationTerminates ==
    /\ [][pc = "scan" =>
            \/ Len(feed'.rest) < Len(feed.rest)
            \/ pc' = "done"]_vars
    /\ [][Unread' <= Unread]_vars
    /\ <>Terminated

\* the stream ended inside the block number of a START_BLOCK after two
\* yielded Banks, and both generators have returned
C36_Witness ==
    /\ Terminated /\ outcome = "end" /\ evPc = "done"
    /\ nYielded = 2 /\ Len(seen) = 2
    /\ pc = "done" /\ eof /\ feed.rest = << >>

\* the iteration ended by an error of the Bank Assembler
TerminatedByError ==
    /\ Terminated /\ evPc = "raised" /\ outcome = "BankCrcMismatch"
    /\ feed.rest # << >>

====
